---- MODULE Spec2Model ----
(***************************************************************************)
(* Drawbridge: the session registry, the viewport extraction, the          *)
(* broadcast fan-out, the HTTP mutation API and the WebSocket update       *)
(* channel of the server (src/unnamed/part_000), and the upload of image    *)
(* files to object storage (src/lib/spaces-client.js).                     *)
(*                                                                         *)
(* Values.  A JavaScript value that may be absent (undefined / null) is a  *)
(* sequence of length at most one: Null is <<>>, Some(v) is <<v>>.  The    *)
(* numeric fields of a request body or of a camera pseudo-element are      *)
(* such optionals over integers.  A stored viewport is Null or Some of a   *)
(* record of four integers.                                                *)
(*                                                                         *)
(* Session objects live on a heap and the registry maps a session id to a  *)
(* heap cell, because the WebSocket handlers close over the session        *)
(* OBJECT while the timer and the HTTP handlers look the id up again.      *)
(*                                                                         *)
(* Specifications.                                                         *)
(*   Spec        the whole server: two session ids, two connections,       *)
(*               MaxOps requests over a few one-item batches               *)
(*   SpecScene   one session id, two connections, MaxOps requests over     *)
(*               every batch up to MaxBatch in the HTTP bodies             *)
(*   SpecRead    one session id, one connection, MaxOps + 1 requests:      *)
(*               appends, a replace-all, clears and reads                  *)
(*   SpecExtract one call of extractViewportUpdates an iteration at a      *)
(*               time, and one set-viewport request with any body          *)
(*   SpecIdle    one session over both channels, with the deletion checks  *)
(*               firing (weak fairness of the timer callback)              *)
(*   SpecSendFail   one session, and sockets whose send throws             *)
(*   SpecMalformed  one session, and inbound frames of every shape         *)
(*   SpecClock   one session under a clock that counts minutes             *)
(*   SpecGuard   the editing client (src/src/App.tsx) under a clock of      *)
(*               50 ms ticks                                               *)
(*   SpecFlag    the editing client without a clock, its timers firing     *)
(*               (weak fairness), its rendering surface failing or not     *)
(*   SpecFiles   the editing client and its images: uploads and proxy     *)
(*               fetches answered in any order                             *)
(*   SpecUpload  two calls of uploadFile interleaved at their awaits,      *)
(*               against a storage that answers or fails                   *)
(***************************************************************************)
EXTENDS Integers, Sequences, FiniteSets, TLC

VARIABLES
    sessions,   \* the registry: session id -> heap cell (0: no entry)
    heap,       \* heap cell -> session object {elements, appState, viewport, clients}
    conns,      \* connection -> [readyState, sid, session]
    outbox,     \* connection -> the frames the server sent to it, in order
    timers,     \* session id -> number of pending deletion checks
    hist,       \* the requests and update frames handled so far, in order
    limit,      \* how many requests and update frames this run handles
    xin,        \* the argument of one call of extractViewportUpdates
    xs,         \* the locals of that call: elements, i, drawElements, viewports
    spaces,     \* the module variables s3Client and spacesConfig of the storage client
    bucket,     \* the object storage: key -> the object stored under it
    calls,      \* call of uploadFile -> its arguments, locals, position and outcome
    requests,   \* the storage requests issued so far, in order
    clock,      \* the time in minutes, the deadlines of the pending deletion
                \* checks, since when each session has had no client, and the
                \* removals so far (kept only where a specification runs a clock)
    app,        \* one editing client (src/src/App.tsx): its refs, its rendering
                \* surface, its suspended message handlers and its timers
    files       \* the file bookkeeping of that client: the known and in-flight
                \* fileIds, the files of the surface, its uploads and loads

vars == <<sessions, heap, conns, outbox, timers, hist, limit, xin, xs,
          spaces, bucket, calls, requests, clock, app, files>>

appVars == <<app, files>>

serverVars == <<sessions, heap, conns, outbox, timers, hist, limit, clock>>

assetVars == <<spaces, bucket, calls, requests>>

-----------------------------------------------------------------------------
(* Bounds *)

\* requests and update frames handled in one behaviour
MaxOps == 2

\* longest element batch of a request or of an update frame
MaxBatch == 2

\* the ticks a behaviour with a clock runs for (minutes at the server, 50 ms
\* at the client)
MaxTime == 5

-----------------------------------------------------------------------------
(* Values *)

Null == <<>>

Some(v) == <<v>>

SessionIds == {"s1", "s2"}

Conns == {"c1", "c2"}

NoConn == "http"

\* connections are interchangeable: they open in the order c1, c2
ConnOrder == <<"c1", "c2">>

\* the place of a connection in that order, which is the order a session's
\* client Set iterates in (insertion order)
Pos(c) == CHOOSE i \in 1 .. Len(ConnOrder) : ConnOrder[i] = c

ObjIds == 1 .. (Cardinality(SessionIds) + Cardinality(Conns))

\* the values a numeric field of a JSON body takes: absent, 0, non-zero
FieldVals == {Null, Some(0), Some(5), Some(7)}

Item(type, id, x, y, width, height) ==
    [type |-> type, id |-> id, x |-> x, y |-> y, width |-> width, height |-> height]

elA == Item("rectangle", "a", Null, Null, Null, Null)

elB == Item("arrow", "b", Null, Null, Null, Null)

\* x present, y missing, width present and zero, height present
camA == Item("cameraUpdate", "", Some(5), Null, Some(0), Some(7))

\* every field missing
camB == Item("viewportUpdate", "", Null, Null, Null, Null)

DrawItems == {elA, elB}

CamItems == {camA, camB}

Items == {elA} \cup CamItems

\* every camera pseudo-element over FieldVals
AllCamItems ==
    { Item(t, "", x, y, w, h) : t \in {"cameraUpdate", "viewportUpdate"},
                                 x \in {Null, Some(0), Some(5)},
                                 y \in {Null, Some(0), Some(7)},
                                 w \in {Null, Some(0), Some(5)},
                                 h \in {Null, Some(0), Some(7)} }

SeqsUpTo(S, n) == UNION { [1 .. k -> S] : k \in 0 .. n }

\* the element batches of requests and update frames
Batches == SeqsUpTo(Items, MaxBatch)

\* the batches of the two-session specification: one drawing element, one camera
FewBatches == SeqsUpTo({elA, camA}, MaxBatch - 1)

\* batches of drawing elements only
DrawBatches == SeqsUpTo(DrawItems, MaxBatch - 1) \cup {<<elB, elA>>}

\* a request body: every field optional
Body(elements, appState, x, y, width, height) ==
    [elements |-> elements, appState |-> appState,
     x |-> x, y |-> y, width |-> width, height |-> height]

NoBody == Body(Null, Null, Null, Null, Null, Null)

\* the text of an inbound WebSocket frame, by what JSON.parse makes of it:
\* json is whether it parses, object whether the value is not null, type and
\* elements are the fields of that name where it has them
Data(json, object, type, elements) ==
    [json |-> json, object |-> object, type |-> type, elements |-> elements]

\* the frame {type: 'update', elements: b}
Update(b) == Data(TRUE, TRUE, Some("update"), Some(b))

\* the value `undefined` in the place of an element array: a one-item
\* sequence no frame or body carries, so that it differs from every array
Undefined == <<Item("undefined", "", Null, Null, Null, Null)>>

\* `v ?? d`: only an absent value takes the default
OrDefaultNullish(v, d) == IF v = Null THEN d ELSE v[1]

\* JavaScript `v || d` on an optional number: undefined, null and 0 are falsy
OrDefault(v, d) == IF v = Null \/ v[1] = 0 THEN d ELSE v[1]

isCamera(el) == el.type = "cameraUpdate" \/ el.type = "viewportUpdate"

-----------------------------------------------------------------------------
(* Session registry *)

EmptySession == [elements |-> <<>>, appState |-> Null, viewport |-> Null, clients |-> {}]

\* the heap cells some handler can still reach: the registered ones and the
\* ones a live connection's handlers closed over
Reachable(reg, cn) ==
    { reg[s] : s \in SessionIds } \cup
    { cn[c].session : c \in { d \in Conns : cn[d].readyState \in {"OPEN", "CLOSING"} } }

FreshCell(reg, cn) ==
    CHOOSE o \in ObjIds : o \notin Reachable(reg, cn)
                          /\ \A p \in ObjIds : p \notin Reachable(reg, cn) => o <= p

\* getSession that registers a new object without initialising it
getSessionStale(reg, hp, cn, id) ==
    IF reg[id] # 0
    THEN [sessions |-> reg, heap |-> hp, session |-> reg[id]]
    ELSE LET o == FreshCell(reg, cn)
         IN [sessions |-> [reg EXCEPT ![id] = o], heap |-> hp, session |-> o]

\* getSession(id): the registry and heap after the call, and the cell returned
getSession(reg, hp, cn, id) ==
    IF reg[id] # 0
    THEN [sessions |-> reg, heap |-> hp, session |-> reg[id]]
    ELSE LET o == FreshCell(reg, cn)
         IN [sessions |-> [reg EXCEPT ![id] = o],
             heap     |-> [hp EXCEPT ![o] = EmptySession],
             session  |-> o]

\* a deletion check that deletes without looking at the client set
timerCheckNoRecheck(reg, hp, sid) == [reg EXCEPT ![sid] = 0]

\* the body of the setTimeout callback: look the id up again and delete the
\* entry if its client set is empty
timerCheck(reg, hp, sid) ==
    IF reg[sid] # 0 /\ hp[reg[sid]].clients = {}
    THEN [reg EXCEPT ![sid] = 0]
    ELSE reg

\* the delay of the deletion check, `5 * 60 * 1000` ms, in minutes
IdleWindow == 5

\* no clock: time is not observed, a pending check fires at any moment
NoClock ==
    [on |-> FALSE, now |-> 0, due |-> [s \in SessionIds |-> <<>>],
     since |-> [s \in SessionIds |-> 0], removed |-> {}]

\* a clock at minute 0
StartClock == [NoClock EXCEPT !.on = TRUE]

\* `setTimeout(..., 5 * 60 * 1000)` at the close that empties the client set
\* of sid: one more deadline, and the set is empty from now on
scheduled(ck, sid) ==
    IF ck.on
    THEN [ck EXCEPT !.due[sid] = Append(@, ck.now + IdleWindow), !.since[sid] = ck.now]
    ELSE ck

\* getSession on registry reg: a session it creates has no client from now on
created(ck, reg, sid) ==
    IF ck.on /\ reg[sid] = 0 THEN [ck EXCEPT !.since[sid] = ck.now] ELSE ck

\* the earliest deletion check of sid has run and left registry reg1
fired(ck, reg, reg1, sid) ==
    IF ck.on
    THEN [ck EXCEPT !.due[sid] = Tail(@),
                    !.removed = IF reg[sid] # 0 /\ reg1[sid] = 0
                                THEN @ \cup {[sid |-> sid, at |-> ck.now,
                                               since |-> ck.since[sid]]}
                                ELSE @]
    ELSE ck

\* whether the deletion check of sid that was scheduled first is due, and no
\* check of another session is due before it
isDue(ck, sid) ==
    /\ ck.due[sid] # <<>>
    /\ Head(ck.due[sid]) <= ck.now
    /\ \A t \in SessionIds : ck.due[t] # <<>> => Head(ck.due[sid]) <= Head(ck.due[t])

-----------------------------------------------------------------------------
(* Viewport extraction *)

\* the camera built from a camera pseudo-element (or a request body)
cameraOf(el) ==
    [x      |-> OrDefault(el.x, 0),
     y      |-> OrDefault(el.y, 0),
     width  |-> OrDefault(el.width, 800),
     height |-> OrDefault(el.height, 600)]

\* the locals of extractViewportUpdates before the loop
extractStart(elements) ==
    [elements |-> elements, i |-> 1, drawElements |-> <<>>, viewports |-> <<>>]

\* the loop body with unshift for push
extractBodyUnshift(st) ==
    LET el == st.elements[st.i]
    IN IF isCamera(el)
       THEN [st EXCEPT !.viewports = Append(@, cameraOf(el)), !.i = @ + 1]
       ELSE [st EXCEPT !.drawElements = <<el>> \o @, !.i = @ + 1]

\* one iteration of `for (const el of elements)`
extractBody(st) ==
    LET el == st.elements[st.i]
    IN IF isCamera(el)
       THEN [st EXCEPT !.viewports = Append(@, cameraOf(el)), !.i = @ + 1]
       ELSE [st EXCEPT !.drawElements = Append(@, el), !.i = @ + 1]

RECURSIVE extractRun(_)
extractRun(st) ==
    IF st.i > Len(st.elements) THEN st ELSE extractRun(extractBody(st))

\* an extraction that reports a default camera for every batch
extractAlwaysCamera(elements) ==
    LET r == extractRun(extractStart(elements))
    IN [drawElements |-> r.drawElements,
        viewports    |-> Append(r.viewports, [x |-> 0, y |-> 0, width |-> 800, height |-> 600])]

extractViewportUpdates(elements) ==
    LET r == extractRun(extractStart(elements))
    IN [drawElements |-> r.drawElements, viewports |-> r.viewports]

-----------------------------------------------------------------------------
(* Frames and fan-out *)

\* a server -> client frame; `op` is the place in hist of the request that
\* broadcast it, 0 for the frames of the initial sync (history, not part of
\* the frame)
Frame(type, elements, appState, viewport, op) ==
    [type |-> type, elements |-> elements, appState |-> appState,
     viewport |-> viewport, op |-> op]

\* a send that puts the frame ahead of the frames already sent
sendFirst(ob, c, msg) == [ob EXCEPT ![c] = <<msg>> \o @]

\* ws.send(msg) on connection c
send(ob, c, msg) == [ob EXCEPT ![c] = Append(@, msg)]

\* broadcast that puts the frame ahead of the frames already sent
broadcastFirst(ob, cn, session, msg) ==
    [c \in Conns |->
        IF c \in session.clients /\ cn[c].readyState = "OPEN"
        THEN <<msg>> \o ob[c]
        ELSE ob[c]]

\* the clients a send loop calls send on: the OPEN clients of the session,
\* the sender left out where the loop skips it
Called(cn, session, skip) ==
    { c \in session.clients \ skip : cn[c].readyState = "OPEN" }

\* whether `for (const client of session.clients) ... client.send(...)` ends
\* in an exception: some send it calls throws
loopThrows(cn, session, skip) ==
    \E d \in Called(cn, session, skip) : cn[d].sendThrows

\* the clients the loop delivers to: the exception of a send leaves the loop,
\* so a client is reached only if no send up to its own has thrown
Delivered(cn, session, skip) ==
    { c \in Called(cn, session, skip) :
        \A d \in Called(cn, session, skip) : Pos(d) <= Pos(c) => ~cn[d].sendThrows }

\* a broadcast that reaches every open connection of the server
broadcastEveryone(ob, cn, session, msg) ==
    [c \in Conns |->
        IF cn[c].readyState = "OPEN" THEN Append(ob[c], msg) ELSE ob[c]]

\* broadcast(session, msg) over the outboxes `ob`
broadcast(ob, cn, session, msg) ==
    [c \in Conns |->
        IF c \in Delivered(cn, session, {})
        THEN Append(ob[c], msg)
        ELSE ob[c]]

\* the loop without `client !== ws`
fanOutAll(ob, cn, session, ws, msg) ==
    [c \in Conns |->
        IF c \in session.clients /\ cn[c].readyState = "OPEN"
        THEN Append(ob[c], msg)
        ELSE ob[c]]

\* the loop of the message handler: every client but the sender
fanOut(ob, cn, session, ws, msg) ==
    [c \in Conns |->
        IF c \in Delivered(cn, session, {ws})
        THEN Append(ob[c], msg)
        ELSE ob[c]]

\* `viewports[0]`
firstViewport(viewports) == viewports[1]

\* `viewports[viewports.length - 1]`
lastViewport(viewports) == viewports[Len(viewports)]

\* replace-all that keeps the old scene under the new one
mergedScene(elements, drawElements) == elements \o drawElements

\* `session.elements = drawElements` of replace-all
replacedScene(elements, drawElements) == drawElements

\* `[...drawElements, ...session.elements]`
prependedScene(elements, drawElements) == drawElements \o elements

\* `[...session.elements, ...drawElements]` of append
appendedScene(elements, drawElements) == elements \o drawElements

\* append that broadcasts the whole scene
appendFrameFull(session, drawElements, k) == Frame("append", session.elements, Null, Null, k)

\* the frame append broadcasts: { type: 'append', elements: drawElements }
appendFrame(session, drawElements, k) == Frame("append", drawElements, Null, Null, k)

\* clear without `session.viewport = null`
clearedSessionKeepsViewport(session) ==
    [session EXCEPT !.elements = <<>>, !.appState = Null]

\* the three assignments of clear
clearedSession(session) ==
    [session EXCEPT !.elements = <<>>, !.appState = Null, !.viewport = Null]

\* one handled request or update frame
Entry(op, sid, c, body, cell, pre, post, resp) ==
    [op |-> op, sid |-> sid, conn |-> c, body |-> body, session |-> cell,
     pre |-> pre, post |-> post, resp |-> resp,
     open |-> { d \in Conns : conns[d].readyState = "OPEN" },
     throwing |-> { d \in Conns : conns[d].sendThrows }]

\* a response: status 200 and the body res.json sends (the fields a handler
\* does not send are Null)
Resp(elements, appState, viewport, elementCount) ==
    [status |-> 200, elements |-> elements, appState |-> appState,
     viewport |-> viewport, elementCount |-> elementCount]

\* the response to a request whose handler threw: the framework answers 500
Failed ==
    [status |-> 500, elements |-> <<>>, appState |-> Null, viewport |-> Null,
     elementCount |-> Null]

-----------------------------------------------------------------------------
(* Storage client (src/lib/spaces-client.js).  A string that is put together *)
(* from parts (a key, a URL) is the sequence of its parts.  A data URL is    *)
(* the sequence of its tokens: "data:", ";", "base64", ",", a line break      *)
(* "\n", and any other token for a run of other characters.                  *)

Calls == {"u1", "u2"}

FileIds == {"f1", "f2"}

MimeTypes == {"image/png", "image/jpeg", "image/jpg", "text/plain"}

MIME_EXTENSIONS ==
    [m \in {"image/png", "image/jpeg", "image/jpg", "image/gif", "image/svg+xml", "image/webp"} |->
        CASE m = "image/png" -> ".png"
          [] m = "image/jpeg" -> ".jpg"
          [] m = "image/jpg" -> ".jpg"
          [] m = "image/gif" -> ".gif"
          [] m = "image/svg+xml" -> ".svg"
          [] m = "image/webp" -> ".webp"]

\* `MIME_EXTENSIONS[mimeType] || '.bin'`
extOf(mimeType) ==
    IF mimeType \in DOMAIN MIME_EXTENSIONS THEN MIME_EXTENSIONS[mimeType] ELSE ".bin"

\* `files/${sessionId}/${fileId}${ext}`
keyOf(sessionId, fileId, ext) == <<"files/", sessionId, "/", fileId, ext>>

Keys == { keyOf(sid, f, extOf(m)) : sid \in {"s1"}, f \in FileIds, m \in MimeTypes }

\* a JavaScript string that may be absent is truthy when present and not ""
Truthy(v) == v # Null /\ v[1] # ""

Env(accessKey, secretKey, bucketName, region) ==
    [DO_SPACES_ACCESS_KEY |-> accessKey, DO_SPACES_SECRET_KEY |-> secretKey,
     DO_SPACES_BUCKET |-> bucketName, DO_SPACES_REGION |-> region]

\* environments: complete, without region, without secret key, with an empty
\* bucket name
Envs ==
    { Env(Some("AK"), Some("SK"), Some("bk"), Some("ams3")),
      Env(Some("AK"), Some("SK"), Some("bk"), Null),
      Env(Some("AK"), Null, Some("bk"), Some("ams3")),
      Env(Some("AK"), Some("SK"), Some(""), Some("ams3")) }

NoSpaces == [s3Client |-> Null, spacesConfig |-> Null]

\* initSpacesClient(env): what it returns and the module variables after it
initSpacesClient(sp, env) ==
    LET accessKey  == env.DO_SPACES_ACCESS_KEY
        secretKey  == env.DO_SPACES_SECRET_KEY
        bucketName == env.DO_SPACES_BUCKET
        region     == IF Truthy(env.DO_SPACES_REGION) THEN env.DO_SPACES_REGION[1] ELSE "nyc3"
    IN IF ~Truthy(accessKey) \/ ~Truthy(secretKey) \/ ~Truthy(bucketName)
       THEN [returns |-> FALSE, spaces |-> sp]
       ELSE [returns |-> TRUE,
             spaces  |->
                [s3Client     |-> Some([endpoint |-> <<"https://", region, ".digitaloceanspaces.com">>,
                                        accessKeyId |-> accessKey[1],
                                        secretAccessKey |-> secretKey[1]]),
                 spacesConfig |-> Some([bucket  |-> bucketName[1],
                                        region  |-> region,
                                        cdnBase |-> <<"https://", bucketName[1], ".", region,
                                                      ".digitaloceanspaces.com">>])]]

isSpacesEnabled(sp) == sp.s3Client # Null /\ sp.spacesConfig # Null

\* data URLs: a PNG in base64, another payload, no ";base64", no payload, no
\* media type, a media type parameter before ";base64", a line break in the
\* payload, and a URL of another scheme
DataURLs ==
    { <<"data:", "image/png", ";", "base64", ",", "iVBOR">>,
      <<"data:", "image/png", ";", "base64", ",", "R0lGO">>,
      <<"data:", "image/png", ",", "hello">>,
      <<"data:", "image/png", ";", "base64", ",">>,
      <<"data:", ";", "base64", ",", "iVBOR">>,
      <<"data:", "image/png", ";", "charset=utf-8", ";", "base64", ",", "iVBOR">>,
      <<"data:", "image/png", ";", "base64", ",", "iVB", "\n", "OR">>,
      <<"https:", "//example.org/a.png">> }

\* a match that takes every string for a base64 data URL
matchAnything(dataURL) == Some(dataURL)

\* dataURL.match(/^data:[^;]+;base64,(.+)$/): Null, or Some of the group.
\* [^;]+ is the one or more tokens up to the first ";"; (.+) is one or more
\* tokens up to the end, none of them a line break
matchBase64(dataURL) ==
    LET semis == { i \in 2 .. Len(dataURL) : dataURL[i] = ";" }
    IN IF Len(dataURL) = 0 \/ dataURL[1] # "data:" \/ semis = {}
       THEN Null
       ELSE LET j == CHOOSE i \in semis : \A h \in semis : i <= h
            IN IF /\ j > 2
                  /\ Len(dataURL) >= j + 3
                  /\ dataURL[j + 1] = "base64"
                  /\ dataURL[j + 2] = ","
                  /\ \A h \in (j + 3) .. Len(dataURL) : dataURL[h] # "\n"
               THEN Some(SubSeq(dataURL, j + 3, Len(dataURL)))
               ELSE Null

\* Buffer.from(base64, 'base64')
bufferFrom(base64) == <<"bytes of">> \o base64

\* `${spacesConfig.cdnBase}/${key}`
urlOf(sp, key) == sp.spacesConfig[1].cdnBase \o <<"/">> \o key

\* an error object: its name and $metadata?.httpStatusCode
Err(name, status) == [name |-> name, status |-> status]

NotInitialized == Err("Error: Spaces client not initialized", Null)

InvalidDataURL == Err("Error: Invalid dataURL format", Null)

\* the answer 200
Ok == Err("", Some(200))

\* the errors the storage answers a request with whatever it holds
OtherErrors == { Err("Forbidden", Some(403)), Err("TimeoutError", Null) }

\* the answers to HeadObject of a key: 200 if the object is there, a 404
\* (under either name the SDK gives it) if it is not, or another error
HeadAnswers(bk, key) ==
    (IF bk[key] # Null THEN {Ok} ELSE { Err("NotFound", Some(404)), Err("UnknownError", Some(404)) })
    \cup OtherErrors

\* the answers to PutObject
PutAnswers == {Ok} \cup OtherErrors

\* a catch that takes every error for "not found"
continuesAfterAny(err) == TRUE

\* the catch of the existence check goes on to the write unless
\* `err.name !== 'NotFound' && err.$metadata?.httpStatusCode !== 404`
continuesAfter(err) == ~(err.name # "NotFound" /\ err.status # Some(404))

\* the object PutObject stores
Object(buffer, mimeType) ==
    [Body |-> buffer, ContentType |-> mimeType, ACL |-> "public-read",
     CacheControl |-> "public, max-age=31536000, immutable"]

Request(call, command, key) == [call |-> call, command |-> command, Key |-> key]

\* a call that has not started
IdleCall ==
    [pc |-> "idle", sessionId |-> "", fileId |-> "", dataURL |-> <<>>, mimeType |-> "",
     buffer |-> <<>>, key |-> <<>>, head |-> Null, put |-> Null,
     result |-> Null, error |-> Null, after |-> {}, enabled |-> FALSE]

InitAssets ==
    /\ spaces = NoSpaces
    /\ bucket = [key \in Keys |-> Null]
    /\ calls = [u \in Calls |-> IdleCall]
    /\ requests = <<>>

-----------------------------------------------------------------------------
(* Editing client (src/src/App.tsx).  The client's time is counted in ticks  *)
(* of 50 ms.  Its state is one record: the refs of the component, the scene  *)
(* of the rendering surface, the message handlers suspended at their await,  *)
(* the pending timers that clear the flag, the change notifications the      *)
(* surface has not delivered yet, and the frames sent.                       *)

\* a scene element at the client: a resolved element carries a seed, a
\* skeleton element carries none and may carry a label; `text` marks the text
\* element that materialization makes of a label
Shape(id, text, seed, label, isDeleted) ==
    [id |-> id, text |-> text, seed |-> seed, label |-> label, isDeleted |-> isDeleted]

\* a skeleton with a label, a resolved element, an element drawn here
skA == Shape("a", FALSE, FALSE, TRUE, FALSE)

rsB == Shape("b", FALSE, TRUE, FALSE, FALSE)

rsL == Shape("l", FALSE, TRUE, FALSE, FALSE)

needsConversion(elements) ==
    \/ \E i \in 1 .. Len(elements) : elements[i].label
    \/ \E i \in 1 .. Len(elements) : ~elements[i].seed

\* convertToExcalidrawElements(withDefaults, { regenerateIds: false }): every
\* element resolved under its own id, a label made a text element after it
RECURSIVE convertToExcalidrawElements(_)
convertToExcalidrawElements(elements) ==
    IF elements = <<>> THEN <<>>
    ELSE LET el == Head(elements)
         IN <<[el EXCEPT !.seed = TRUE, !.label = FALSE]>>
            \o (IF el.label THEN <<Shape(el.id, TRUE, TRUE, FALSE, FALSE)>> ELSE <<>>)
            \o convertToExcalidrawElements(Tail(elements))

\* sanitizeElements(elements) once the fonts promise has settled as `fontsState`:
\* [] for what is no array; the elements as they are when the await rejects
\* (the catch) or nothing needs conversion; else the converted elements
sanitizeElements(elements, fontsState) ==
    IF elements = Null THEN <<>>
    ELSE IF fontsState = "failed" THEN elements[1]
    ELSE IF ~needsConversion(elements[1]) THEN elements[1]
    ELSE convertToExcalidrawElements(elements[1])

\* a server -> client frame as the client parses it
Msg(type, elements, viewport) == [type |-> type, elements |-> elements, viewport |-> viewport]

ServerMsgs ==
    { Msg("elements", Some(<<skA>>), Null),
      Msg("elements", Some(<<rsB>>), Null),
      Msg("append", Some(<<skA>>), Null),
      Msg("append", Some(<<rsB>>), Null),
      Msg("viewport", Null, Some([x |-> 0, y |-> 0, width |-> 800, height |-> 600])),
      Msg("clear", Null, Null) }

\* the delay of the timers that clear the flag after elements, append and
\* clear: 100 ms, in ticks
SuppressDelay == 2

\* the delay after a viewport frame: 200 ms, in ticks
ViewportDelay == 4

\* a mutation of the rendering surface: which branch made it, when, and
\* whether isRemoteUpdate was set at that moment
Mut(type, at, flag) == [type |-> type, at |-> at, flag |-> flag]

\* a handler suspended at `await sanitizeElements(msg.elements)`
Handler(msg, current, fails) == [msg |-> msg, current |-> current, fails |-> fails]

\* `setTimeout(() => { isRemoteUpdate.current = false; }, delay)`
setTimer(a, delay) == [a EXCEPT !.timers = Append(@, a.now + delay)]

\* api.updateScene / api.resetScene: the scene is set and the surface will
\* notify its onChange
mutated(a, type, elements) ==
    [a EXCEPT !.scene = elements,
              !.notices = Append(@, "remote"),
              !.muts = @ \cup {Mut(type, a.now, a.isRemoteUpdate)}]

\* the elements branch from `api.updateScene({ elements: clean })` on; when
\* the surface throws, the catch of the handler logs it and the rest is skipped
applyElements(a, msg, fails) ==
    LET clean == sanitizeElements(msg.elements, a.fonts)
    IN IF fails THEN a
       ELSE setTimer(mutated(a, "elements", clean), SuppressDelay)

\* the append branch after its await: `[...current, ...clean]`, where
\* `current` was read before the await
applyAppend(a, msg, current, fails) ==
    LET clean == sanitizeElements(msg.elements, a.fonts)
    IN IF fails THEN a
       ELSE setTimer(mutated(a, "append", current \o clean), SuppressDelay)

\* a suspended handler goes on
resume(a, h) ==
    IF h.msg.type = "elements"
    THEN applyElements(a, h.msg, h.fails)
    ELSE applyAppend(a, h.msg, h.current, h.fails)

\* the handlers waiting for the fonts go on in the order they began to wait
RECURSIVE resumeAll(_, _)
resumeAll(a, hs) ==
    IF hs = <<>> THEN a ELSE resumeAll(resume(a, Head(hs)), Tail(hs))

\* ws.onmessage(event) as far as it runs without waiting for the fonts;
\* `fails` is whether the rendering surface throws when this frame is applied
onmessage(a, msg, fails) ==
    LET r == [a EXCEPT !.received = Append(@, [msg |-> msg, api |-> a.api])]
        b == [r EXCEPT !.isRemoteUpdate = TRUE]
    IN CASE msg.type = "elements" /\ a.api ->
                IF a.fonts = "loading"
                THEN [b EXCEPT !.waiting = Append(@, Handler(msg, <<>>, fails))]
                ELSE applyElements(b, msg, fails)
         [] msg.type = "append" /\ a.api ->
                IF a.fonts = "loading"
                THEN [b EXCEPT !.waiting = Append(@, Handler(msg, a.scene, fails))]
                ELSE applyAppend(b, msg, a.scene, fails)
         [] msg.type = "viewport" /\ a.api ->
                IF fails THEN b
                ELSE setTimer([b EXCEPT !.notices = Append(@, "remote"),
                                        !.muts = @ \cup {Mut("viewport", a.now, TRUE)}],
                              ViewportDelay)
         [] msg.type = "clear" /\ a.api ->
                IF fails THEN b
                ELSE setTimer(mutated(b, "clear", <<>>), SuppressDelay)
         [] OTHER -> r

\* an entry of api.getFiles(): its key, a fileId, and whether it carries a
\* dataURL
FileEntry(id, dataURL) == [id |-> id, dataURL |-> dataURL]

\* the order of the files in a metadata record
FileOrder == <<"f1", "f2">>

\* frames of the server about files: the metadata of the files of the session
\* on connect, and a file another client uploaded
FileMsg(type, ids) == [type |-> type, elements |-> Null, viewport |-> Null, ids |-> ids]

FileMsgs ==
    { FileMsg("files-meta", {"f1", "f2"}),
      FileMsg("file-added", {"f1"}),
      FileMsg("file-added", {"f2"}) }

\* a sequence without its i-th entry
Drop(seq, i) == SubSeq(seq, 1, i - 1) \o SubSeq(seq, i + 1, Len(seq))

\* a request as it is issued: an upload (POST .../files) or a proxy fetch
\* (GET .../files/:id), with whether the fileId was in knownFileIds then
Issue(kind, id, known) == [kind |-> kind, id |-> id, known |-> known]

\* an entry uploadNewFiles passed over, and why
Skip(id, why) == [id |-> id, why |-> why]

\* a call of uploadNewFiles suspended in its loop: at `await fetch` ("fetch")
\* or at `await resp.json()` / `await resp.text()` ("body", ok: resp.ok), with
\* the entries of Object.entries(files) it has not reached yet
Upload(id, at, ok, rest) == [id |-> id, at |-> at, ok |-> ok, rest |-> rest]

\* a load suspended at its fetches: loadFilesFromMeta at its Promise.all
\* ("meta"), then in waitForApi ("wait"), or the file-added branch ("added");
\* pending: the fetches not answered yet, loaded: the non-null results
Load(kind, pending, loaded) == [kind |-> kind, pending |-> pending, loaded |-> loaded]

\* the test of uploadNewFiles without the in-flight set
skipsKnownOnly(fs, fileId) == fileId \in fs.known

\* `knownFileIds.current.has(fileId) || uploadingFileIds.current.has(fileId)`
skips(fs, fileId) == fileId \in fs.known \/ fileId \in fs.uploading

\* the loop of uploadNewFiles from the entry it is at, up to its next await:
\* entries known or in flight and entries without dataURL are passed over, the
\* first other one is put in uploadingFileIds and its POST is issued
RECURSIVE uploadLoop(_, _)
uploadLoop(fs, entries) ==
    IF entries = <<>> THEN fs
    ELSE LET e == Head(entries)
         IN IF skips(fs, e.id)
            THEN uploadLoop([fs EXCEPT !.skipped = @ \cup
                                {Skip(e.id, IF e.id \in fs.known THEN "known" ELSE "uploading")}],
                            Tail(entries))
            ELSE IF ~e.dataURL THEN uploadLoop(fs, Tail(entries))
            ELSE [fs EXCEPT !.uploading = @ \cup {e.id},
                            !.uploads = Append(@, Upload(e.id, "fetch", FALSE, Tail(entries))),
                            !.issued = @ \cup {Issue("upload", e.id, e.id \in fs.known)}]

\* uploadNewFiles(files)
uploadNewFiles(fs, entries) == uploadLoop(fs, entries)

\* `apiRef.current.addFiles(loaded)` and `knownFileIds.current.add(f.id)` for
\* each: the files enter api.getFiles() with their dataURL
addFiles(fs, loaded) ==
    LET fresh(f) == f \in loaded /\ \A i \in 1 .. Len(fs.surface) : fs.surface[i].id # f
        added == SelectSeq(FileOrder, fresh)
    IN [fs EXCEPT !.surface = [i \in 1 .. Len(@) |->
                                  IF @[i].id \in loaded THEN FileEntry(@[i].id, TRUE) ELSE @[i]]
                              \o [i \in 1 .. Len(added) |-> FileEntry(added[i], TRUE)],
                  !.known = @ \cup loaded]

\* loadFilesFromMeta(filesMeta) up to its Promise.all: the files not known
\* are fetched through the proxy, all at once
loadFilesFromMeta(fs, ids) ==
    LET toLoad == { f \in ids : f \notin fs.known }
    IN IF toLoad = {} THEN fs
       ELSE [fs EXCEPT !.loads = Append(@, Load("meta", toLoad, {})),
                       !.issued = @ \cup { Issue("fetch", f, f \in fs.known) : f \in toLoad }]

\* the file-added branch up to its await
fileAdded(fs, id) ==
    IF id \in fs.known THEN fs
    ELSE [fs EXCEPT !.loads = Append(@, Load("added", {id}, {})),
                    !.issued = @ \cup {Issue("fetch", id, id \in fs.known)}]

\* what ws.onmessage does to the file bookkeeping: `api` is apiRef.current,
\* `fails` whether the rendering surface throws when the frame is applied
onmessageFiles(fs, api, msg, fails) ==
    CASE msg.type = "files-meta" -> loadFilesFromMeta(fs, msg.ids)
      [] msg.type = "file-added" -> fileAdded(fs, CHOOSE f \in msg.ids : TRUE)
      [] msg.type = "clear" /\ api /\ ~fails -> [fs EXCEPT !.known = {}]
      [] OTHER -> fs

\* the refs knownFileIds and uploadingFileIds, the files of the rendering
\* surface, the suspended uploads and loads; issued and skipped are history
NoFiles ==
    [known |-> {}, uploading |-> {}, surface |-> <<>>, uploads |-> <<>>,
     loads |-> <<>>, issued |-> {}, skipped |-> {}]

\* app.received is history: the frames that arrived, in order, each with
\* whether the surface was mounted when it did

\* the client as the component mounts: no surface yet, the socket connecting,
\* the fonts loading (ensureFontsLoaded is called on mount), nothing cached
InitApp(timed) ==
    /\ app = [api |-> FALSE, ws |-> "CONNECTING", fonts |-> "loading",
              isRemoteUpdate |-> FALSE, scene |-> <<>>, waiting |-> <<>>,
              timers |-> <<>>, notices |-> <<>>, sent |-> <<>>,
              timed |-> timed, now |-> 0, received |-> <<>>, muts |-> {}, edits |-> 0]
    /\ files = NoFiles

-----------------------------------------------------------------------------
(* Initial state: an empty registry, no connection yet *)

InitServer ==
    /\ sessions = [s \in SessionIds |-> 0]
    /\ heap = [o \in ObjIds |-> EmptySession]
    /\ conns = [c \in Conns |-> [readyState |-> "CONNECTING", sid |-> "", session |-> 0,
                                     sendThrows |-> FALSE]]
    /\ outbox = [c \in Conns |-> <<>>]
    /\ timers = [s \in SessionIds |-> 0]
    /\ hist = <<>>

Init ==
    /\ InitServer
    /\ limit = MaxOps
    /\ xin = <<>>
    /\ xs = extractStart(<<>>)
    /\ InitAssets
    /\ InitApp(FALSE)
    /\ clock = NoClock

-----------------------------------------------------------------------------
(* WebSocket channel *)

\* the handleUpgrade callback: connection c opens on /ws/<sid>
OnUpgrade(c, sid) ==
    /\ conns[c].readyState = "CONNECTING"
    /\ LET g     == getSession(sessions, heap, conns, sid)
           o     == g.session
           heap1 == [g.heap EXCEPT ![o].clients = @ \cup {c}]
           ob1   == IF Len(heap1[o].elements) > 0
                    THEN send(outbox, c, Frame("elements", heap1[o].elements,
                                               heap1[o].appState, Null, 0))
                    ELSE outbox
           ob2   == IF heap1[o].viewport # Null
                    THEN send(ob1, c, Frame("viewport", <<>>, Null,
                                            heap1[o].viewport, 0))
                    ELSE ob1
       IN /\ sessions' = g.sessions
          /\ heap' = heap1
          /\ outbox' = ob2
          /\ conns' = [conns EXCEPT ![c] = [readyState |-> "OPEN", sid |-> sid, session |-> o,
                                                sendThrows |-> FALSE]]
    /\ clock' = created(clock, sessions, sid)
    /\ UNCHANGED <<timers, hist, limit, xin, xs, assetVars, appVars>>

\* the peer starts closing: readyState leaves OPEN before 'close' is emitted
PeerClosing(c) ==
    /\ conns[c].readyState = "OPEN"
    /\ conns' = [conns EXCEPT ![c].readyState = "CLOSING"]
    /\ UNCHANGED <<sessions, heap, outbox, timers, hist, limit, xin, xs, assetVars, clock, appVars>>

\* the socket of connection c gets into a state in which send throws
SendBreaks(c) ==
    /\ conns[c].readyState = "OPEN"
    /\ ~conns[c].sendThrows
    /\ conns' = [conns EXCEPT ![c].sendThrows = TRUE]
    /\ UNCHANGED <<sessions, heap, outbox, timers, hist, limit, xin, xs, assetVars, clock, appVars>>

\* ws.on('message') for the frame `data`.  JSON.parse throws on text that is
\* not JSON and `msg.type` throws on null: the catch logs both.  A frame of
\* another type is ignored.  An update assigns msg.elements, whatever it is,
\* and sends it to the other clients; an exception of a send ends in the same
\* catch.
OnMessage(c, data) ==
    /\ conns[c].readyState = "OPEN"
    /\ Len(hist) < limit
    /\ LET o        == conns[c].session
           k        == Len(hist) + 1
           isUpdate == data.json /\ data.object /\ data.type = Some("update")
           elements == IF data.elements = Null THEN Undefined ELSE data.elements[1]
           heap1    == IF isUpdate THEN [heap EXCEPT ![o].elements = elements] ELSE heap
       IN /\ heap' = heap1
          /\ outbox' = IF isUpdate
                       THEN fanOut(outbox, conns, heap1[o], c,
                                   Frame("elements", elements, Null, Null, k))
                       ELSE outbox
          /\ hist' = Append(hist, Entry(IF isUpdate THEN "update" ELSE "message",
                                        conns[c].sid, c,
                                        Body(data.elements, Null, Null, Null, Null, Null),
                                        o, heap[o], heap1[o], Resp(<<>>, Null, Null, Null)))
    /\ UNCHANGED <<sessions, conns, timers, limit, xin, xs, assetVars, clock, appVars>>

\* ws.on('close')
OnClose(c) ==
    /\ conns[c].readyState \in {"OPEN", "CLOSING"}
    /\ LET o     == conns[c].session
           heap1 == [heap EXCEPT ![o].clients = @ \ {c}]
       IN /\ heap' = heap1
          /\ timers' = IF heap1[o].clients = {}
                       THEN [timers EXCEPT ![conns[c].sid] = @ + 1]
                       ELSE timers
          /\ clock' = IF heap1[o].clients = {}
                      THEN scheduled(clock, conns[c].sid)
                      ELSE clock
    /\ conns' = [conns EXCEPT ![c].readyState = "CLOSED"]
    /\ UNCHANGED <<sessions, outbox, hist, limit, xin, xs, assetVars, appVars>>

\* the setTimeout callback of a close handler, for session id sid
OnTimeout(sid) ==
    /\ timers[sid] > 0
    /\ clock.on => isDue(clock, sid)
    /\ timers' = [timers EXCEPT ![sid] = @ - 1]
    /\ sessions' = timerCheck(sessions, heap, sid)
    /\ clock' = fired(clock, sessions, timerCheck(sessions, heap, sid), sid)
    /\ UNCHANGED <<heap, conns, outbox, hist, limit, xin, xs, assetVars, appVars>>

\* a minute passes; the event loop runs a deletion check when it is due, so
\* time does not pass the deadline of a pending check
Tick ==
    /\ clock.on
    /\ clock.now < MaxTime
    /\ \A sid \in SessionIds : clock.due[sid] # <<>> => clock.now < Head(clock.due[sid])
    /\ clock' = [clock EXCEPT !.now = @ + 1]
    /\ UNCHANGED <<sessions, heap, conns, outbox, timers, hist, limit, xin, xs, assetVars, appVars>>

-----------------------------------------------------------------------------
(* HTTP API *)

\* GET /api/session/:id
HttpGetSession(sid) ==
    /\ Len(hist) < limit
    /\ LET g == getSession(sessions, heap, conns, sid)
           o == g.session
       IN /\ sessions' = g.sessions
          /\ heap' = g.heap
          /\ hist' = Append(hist, Entry("read", sid, NoConn, NoBody, o, g.heap[o], g.heap[o],
                                        Resp(g.heap[o].elements, g.heap[o].appState,
                                             g.heap[o].viewport, Null)))
    /\ clock' = created(clock, sessions, sid)
    /\ UNCHANGED <<conns, outbox, timers, limit, xin, xs, assetVars, appVars>>

\* POST /api/session/:id/elements
HttpPostElements(sid, body) ==
    /\ Len(hist) < limit
    /\ LET g     == getSession(sessions, heap, conns, sid)
           o     == g.session
           k     == Len(hist) + 1
           ex    == extractViewportUpdates(IF body.elements = Null THEN <<>>
                                           ELSE body.elements[1])
           heap1 == [g.heap EXCEPT ![o].elements = replacedScene(@, ex.drawElements),
                                   ![o].appState = IF body.appState # Null
                                                   THEN body.appState ELSE @]
           ob1   == broadcast(outbox, conns, heap1[o],
                              Frame("elements", heap1[o].elements, heap1[o].appState, Null, k))
           threw == loopThrows(conns, heap1[o], {})
           hasVp == ~threw /\ Len(ex.viewports) > 0
           heap2 == IF hasVp
                    THEN [heap1 EXCEPT ![o].viewport = Some(lastViewport(ex.viewports))]
                    ELSE heap1
           ob2   == IF hasVp
                    THEN broadcast(ob1, conns, heap2[o],
                                   Frame("viewport", <<>>, Null, Some(lastViewport(ex.viewports)), k))
                    ELSE ob1
       IN /\ sessions' = g.sessions
          /\ heap' = heap2
          /\ outbox' = ob2
          /\ hist' = Append(hist, Entry("replace", sid, NoConn, body, o, g.heap[o], heap2[o],
                                        IF threw THEN Failed
                                        ELSE Resp(<<>>, Null, Null, Some(Len(heap2[o].elements)))))
    /\ clock' = created(clock, sessions, sid)
    /\ UNCHANGED <<conns, timers, limit, xin, xs, assetVars, appVars>>

\* POST /api/session/:id/append
HttpPostAppend(sid, body) ==
    /\ Len(hist) < limit
    /\ LET g     == getSession(sessions, heap, conns, sid)
           o     == g.session
           k     == Len(hist) + 1
           some  == body.elements # Null /\ Len(body.elements[1]) > 0
           ex    == IF some THEN extractViewportUpdates(body.elements[1])
                    ELSE [drawElements |-> <<>>, viewports |-> <<>>]
           hasEl == Len(ex.drawElements) > 0
           heap1 == IF hasEl
                    THEN [g.heap EXCEPT ![o].elements = appendedScene(@, ex.drawElements)]
                    ELSE g.heap
           ob1   == IF hasEl
                    THEN broadcast(outbox, conns, heap1[o],
                                   appendFrame(heap1[o], ex.drawElements, k))
                    ELSE outbox
           threw1 == hasEl /\ loopThrows(conns, heap1[o], {})
           hasVp == ~threw1 /\ Len(ex.viewports) > 0
           heap2 == IF hasVp
                    THEN [heap1 EXCEPT ![o].viewport = Some(lastViewport(ex.viewports))]
                    ELSE heap1
           ob2   == IF hasVp
                    THEN broadcast(ob1, conns, heap2[o],
                                   Frame("viewport", <<>>, Null, Some(lastViewport(ex.viewports)), k))
                    ELSE ob1
           threw == threw1 \/ (hasVp /\ loopThrows(conns, heap2[o], {}))
       IN /\ sessions' = g.sessions
          /\ heap' = heap2
          /\ outbox' = ob2
          /\ hist' = Append(hist, Entry("append", sid, NoConn, body, o, g.heap[o], heap2[o],
                                        IF threw THEN Failed
                                        ELSE Resp(<<>>, Null, Null, Some(Len(heap2[o].elements)))))
    /\ clock' = created(clock, sessions, sid)
    /\ UNCHANGED <<conns, timers, limit, xin, xs, assetVars, appVars>>

\* POST /api/session/:id/viewport
HttpPostViewport(sid, body) ==
    /\ Len(hist) < limit
    /\ LET g        == getSession(sessions, heap, conns, sid)
           o        == g.session
           k        == Len(hist) + 1
           viewport == [x      |-> OrDefault(body.x, 0),
                        y      |-> OrDefault(body.y, 0),
                        width  |-> OrDefault(body.width, 800),
                        height |-> OrDefault(body.height, 600)]
           heap1    == [g.heap EXCEPT ![o].viewport = Some(viewport)]
       IN /\ sessions' = g.sessions
          /\ heap' = heap1
          /\ outbox' = broadcast(outbox, conns, heap1[o],
                                 Frame("viewport", <<>>, Null, Some(viewport), k))
          /\ hist' = Append(hist, Entry("viewport", sid, NoConn, body, o, g.heap[o], heap1[o],
                                        IF loopThrows(conns, heap1[o], {}) THEN Failed
                                        ELSE Resp(<<>>, Null, Some(viewport), Null)))
    /\ clock' = created(clock, sessions, sid)
    /\ UNCHANGED <<conns, timers, limit, xin, xs, assetVars, appVars>>

\* POST /api/session/:id/clear
HttpPostClear(sid) ==
    /\ Len(hist) < limit
    /\ LET g     == getSession(sessions, heap, conns, sid)
           o     == g.session
           k     == Len(hist) + 1
           heap1 == [g.heap EXCEPT ![o] = clearedSession(@)]
       IN /\ sessions' = g.sessions
          /\ heap' = heap1
          /\ outbox' = broadcast(outbox, conns, heap1[o], Frame("clear", <<>>, Null, Null, k))
          /\ hist' = Append(hist, Entry("clear", sid, NoConn, NoBody, o, g.heap[o], heap1[o],
                                        IF loopThrows(conns, heap1[o], {}) THEN Failed
                                        ELSE Resp(<<>>, Null, Null, Null)))
    /\ clock' = created(clock, sessions, sid)
    /\ UNCHANGED <<conns, timers, limit, xin, xs, assetVars, appVars>>

-----------------------------------------------------------------------------
(* One call of extractViewportUpdates, an iteration at a time *)

ExtractStep ==
    /\ xs.i <= Len(xs.elements)
    /\ xs' = extractBody(xs)
    /\ UNCHANGED <<serverVars, xin, assetVars, appVars>>

extractDone == xs.i > Len(xs.elements)

-----------------------------------------------------------------------------
(* uploadFile, a step per stretch of code between two awaits *)

\* initSpacesClient(env), while the client is not initialised
InitSpaces(env) ==
    /\ ~isSpacesEnabled(spaces)
    /\ spaces' = initSpacesClient(spaces, env).spaces
    /\ UNCHANGED <<serverVars, xin, xs, bucket, calls, requests, appVars>>

\* where a call that dedups nothing goes after the existence check
headNextNoDedup(answer) ==
    IF answer = Ok \/ continuesAfter(answer) THEN "put" ELSE "thrown"

\* where the call goes when the existence check is answered: it returns the
\* URL, goes on to the write, or rethrows
headNext(answer) ==
    IF answer = Ok THEN "returned"
    ELSE IF continuesAfter(answer) THEN "put" ELSE "thrown"

\* uploadFile(sessionId, fileId, dataURL, mimeType) up to its first await:
\* the two checks, the key, and HeadObject sent
UploadStart(u, sessionId, fileId, dataURL, mimeType) ==
    /\ calls[u].pc = "idle"
    /\ LET call        == [IdleCall EXCEPT !.sessionId = sessionId, !.fileId = fileId,
                                           !.dataURL = dataURL, !.mimeType = mimeType,
                                           !.enabled = isSpacesEnabled(spaces),
                                           !.after = { v \in Calls :
                                                         calls[v].pc \in {"returned", "thrown"} }]
           base64Match == matchBase64(dataURL)
           key         == keyOf(sessionId, fileId, extOf(mimeType))
       IN IF spaces.s3Client = Null \/ spaces.spacesConfig = Null
          THEN /\ calls' = [calls EXCEPT ![u] = [call EXCEPT !.pc = "thrown",
                                                             !.error = Some(NotInitialized)]]
               /\ requests' = requests
          ELSE IF base64Match = Null
          THEN /\ calls' = [calls EXCEPT ![u] = [call EXCEPT !.pc = "thrown",
                                                             !.error = Some(InvalidDataURL)]]
               /\ requests' = requests
          ELSE /\ calls' = [calls EXCEPT ![u] = [call EXCEPT !.pc = "head",
                                                             !.buffer = bufferFrom(base64Match[1]),
                                                             !.key = key]]
               /\ requests' = Append(requests, Request(u, "HeadObject", key))
    /\ UNCHANGED <<serverVars, xin, xs, spaces, bucket, appVars>>

\* the existence check of call u is answered
HeadResponds(u, answer) ==
    /\ calls[u].pc = "head"
    /\ answer \in HeadAnswers(bucket, calls[u].key)
    /\ LET next == headNext(answer)
           call == [calls[u] EXCEPT !.pc = next, !.head = Some(answer)]
       IN /\ calls' = [calls EXCEPT ![u] =
                         CASE next = "returned" ->
                                [call EXCEPT !.result = Some(urlOf(spaces, call.key))]
                           [] next = "put" -> call
                           [] next = "thrown" -> [call EXCEPT !.error = Some(answer)]]
          /\ requests' = IF next = "put"
                         THEN Append(requests, Request(u, "PutObject", call.key))
                         ELSE requests
    /\ UNCHANGED <<serverVars, xin, xs, spaces, bucket, appVars>>

\* the write of call u is answered
PutResponds(u, answer) ==
    /\ calls[u].pc = "put"
    /\ answer \in PutAnswers
    /\ IF answer = Ok
       THEN /\ bucket' = [bucket EXCEPT ![calls[u].key] =
                             Some(Object(calls[u].buffer, calls[u].mimeType))]
            /\ calls' = [calls EXCEPT ![u].pc = "returned", ![u].put = Some(answer),
                                      ![u].result = Some(urlOf(spaces, calls[u].key))]
       ELSE /\ bucket' = bucket
            /\ calls' = [calls EXCEPT ![u].pc = "thrown", ![u].put = Some(answer),
                                      ![u].error = Some(answer)]
    /\ UNCHANGED <<serverVars, xin, xs, spaces, requests, appVars>>

-----------------------------------------------------------------------------
(* The editing client, a step per event of its event loop *)

\* the rendering surface mounts and hands over its API (apiRef.current)
Mount ==
    /\ ~app.api
    /\ app' = [app EXCEPT !.api = TRUE]
    /\ UNCHANGED <<serverVars, xin, xs, assetVars, files>>

\* ws.onopen
WsOpen ==
    /\ app.ws = "CONNECTING"
    /\ app' = [app EXCEPT !.ws = "OPEN"]
    /\ UNCHANGED <<serverVars, xin, xs, assetVars, files>>

\* ws.onclose: wsRef.current = null, and connect is scheduled again
WsClose ==
    /\ app.ws = "OPEN"
    /\ app' = [app EXCEPT !.ws = "CLOSED"]
    /\ UNCHANGED <<serverVars, xin, xs, assetVars, files>>

\* the reconnect timer: connect() makes a new socket
Reconnect ==
    /\ app.ws = "CLOSED"
    /\ app' = [app EXCEPT !.ws = "CONNECTING"]
    /\ UNCHANGED <<serverVars, xin, xs, assetVars, files>>

\* ws.onmessage for the frame msg
WsOnMessage(msg, fails) ==
    /\ app.ws = "OPEN"
    /\ Len(app.received) < MaxOps
    /\ app' = onmessage(app, msg, fails)
    /\ files' = onmessageFiles(files, app.api, msg, fails)
    /\ UNCHANGED <<serverVars, xin, xs, assetVars>>

\* the fonts promise settles (fulfilled: "ready", rejected: "failed") and the
\* handlers that awaited it go on, one after the other, before any other event
FontsSettle(outcome) ==
    /\ app.fonts = "loading"
    /\ app' = resumeAll([app EXCEPT !.fonts = outcome, !.waiting = <<>>], app.waiting)
    /\ UNCHANGED <<serverVars, xin, xs, assetVars, files>>

\* the i-th pending timer fires: `isRemoteUpdate.current = false`.  Under a
\* clock it fires when it is due and no other timer is due before it
FlagTimerFires(i) ==
    /\ i \in 1 .. Len(app.timers)
    /\ app.timed => /\ app.timers[i] <= app.now
                    /\ \A j \in 1 .. Len(app.timers) : app.timers[i] <= app.timers[j]
    /\ app' = [app EXCEPT !.isRemoteUpdate = FALSE,
                          !.timers = SubSeq(@, 1, i - 1) \o SubSeq(@, i + 1, Len(@))]
    /\ UNCHANGED <<serverVars, xin, xs, assetVars, files>>

\* 50 ms pass at the client; a timer runs when it is due, so time does not
\* pass the deadline of a pending timer
AppTick ==
    /\ app.timed
    /\ app.now < MaxTime
    /\ \A i \in 1 .. Len(app.timers) : app.now < app.timers[i]
    /\ app' = [app EXCEPT !.now = @ + 1]
    /\ UNCHANGED <<serverVars, xin, xs, assetVars, files>>

\* the user draws an element, or deletes the last one (Excalidraw keeps a
\* deleted element in the scene, marked isDeleted); the surface will notify
LocalEdit(kind) ==
    /\ app.api
    /\ app.edits < MaxOps
    /\ kind = "delete" => app.scene # <<>>
    /\ app' = [app EXCEPT !.edits = @ + 1,
                          !.notices = Append(@, "local"),
                          !.scene = IF kind = "draw" THEN Append(@, rsL)
                                    ELSE [@ EXCEPT ![Len(@)].isDeleted = TRUE]]
    /\ UNCHANGED <<serverVars, xin, xs, assetVars, files>>

\* the surface delivers a change notification: onChange(elements, appState)
OnChange ==
    /\ app.notices # <<>>
    /\ LET a == [app EXCEPT !.notices = Tail(@)]
           notDeleted(el) == ~el.isDeleted
           activeElements == SelectSeq(app.scene, notDeleted)
       IN /\ app' = IF app.isRemoteUpdate THEN a
                    ELSE IF app.ws # "OPEN" THEN a
                    ELSE [a EXCEPT !.sent = Append(@, [type |-> "update",
                                                       elements |-> activeElements,
                                                       cause |-> Head(app.notices),
                                                       suppressed |-> app.isRemoteUpdate])]
          /\ files' = IF app.isRemoteUpdate \/ app.ws # "OPEN" THEN files
                      ELSE IF app.api /\ files.surface # <<>>
                           THEN uploadNewFiles(files, files.surface)
                           ELSE files
    /\ UNCHANGED <<serverVars, xin, xs, assetVars>>

\* the user puts an image on the canvas: the surface keeps its file under the
\* fileId and will notify
PasteImage(f, dataURL) ==
    /\ app.api
    /\ \A i \in 1 .. Len(files.surface) : files.surface[i].id # f
    /\ files' = [files EXCEPT !.surface = Append(@, FileEntry(f, dataURL))]
    /\ app' = [app EXCEPT !.notices = Append(@, "local")]
    /\ UNCHANGED <<serverVars, xin, xs, assetVars>>

\* the POST of the i-th suspended upload is answered: with a response
\* ("ok": resp.ok, "status": not), whose body is then awaited, or the fetch
\* rejects ("error"): catch, finally, and the loop goes on
UploadResponds(i, outcome) ==
    /\ i \in 1 .. Len(files.uploads)
    /\ files.uploads[i].at = "fetch"
    /\ LET u == files.uploads[i]
       IN files' = IF outcome = "error"
                   THEN uploadLoop([files EXCEPT !.uploading = @ \ {u.id},
                                                 !.uploads = Drop(@, i)], u.rest)
                   ELSE [files EXCEPT !.uploads[i].at = "body",
                                      !.uploads[i].ok = (outcome = "ok")]
    /\ UNCHANGED <<serverVars, xin, xs, assetVars, app>>

\* `await resp.json()` or `await resp.text()` of the i-th upload settles
\* (good: it fulfils): the fileId becomes known after resp.ok and a parsed
\* body, the finally takes it out of uploadingFileIds, and the loop goes on
UploadBodyRead(i, good) ==
    /\ i \in 1 .. Len(files.uploads)
    /\ files.uploads[i].at = "body"
    /\ LET u == files.uploads[i]
       IN files' = uploadLoop([files EXCEPT
                                  !.known = IF u.ok /\ good THEN @ \cup {u.id} ELSE @,
                                  !.uploading = @ \ {u.id},
                                  !.uploads = Drop(@, i)], u.rest)
    /\ UNCHANGED <<serverVars, xin, xs, assetVars, app>>

\* the files of a finished load enter the surface, which will notify
rendered(a, loaded) ==
    [a EXCEPT !.notices = Append(@, "remote"),
              !.muts = @ \cup {Mut("file-added", a.now, a.isRemoteUpdate)}]

\* fetchFileAsDataURL for file f of the i-th load returns (loaded: its result
\* is not null).  With the last result the load goes on: the file-added
\* branch adds what it loaded when the surface is mounted, loadFilesFromMeta
\* waits for the surface first
FetchAnswers(i, f, loaded) ==
    /\ i \in 1 .. Len(files.loads)
    /\ files.loads[i].kind # "wait"
    /\ f \in files.loads[i].pending
    /\ LET l == files.loads[i]
           pending == l.pending \ {f}
           got == IF loaded THEN l.loaded \cup {f} ELSE l.loaded
           done == [files EXCEPT !.loads = Drop(@, i)]
       IN IF pending # {}
          THEN /\ files' = [files EXCEPT !.loads[i] = Load(l.kind, pending, got)]
               /\ app' = app
          ELSE IF got = {} \/ (l.kind = "added" /\ ~app.api)
          THEN /\ files' = done
               /\ app' = app
          ELSE IF app.api
          THEN /\ files' = addFiles(done, got)
               /\ app' = rendered(app, got)
          ELSE /\ files' = [files EXCEPT !.loads[i] = Load("wait", {}, got)]
               /\ app' = app
    /\ UNCHANGED <<serverVars, xin, xs, assetVars>>

\* waitForApi of the i-th load finds apiRef.current: the loaded files are
\* added and become known
ApiPoll(i) ==
    /\ i \in 1 .. Len(files.loads)
    /\ files.loads[i].kind = "wait"
    /\ app.api
    /\ files' = addFiles([files EXCEPT !.loads = Drop(@, i)], files.loads[i].loaded)
    /\ app' = rendered(app, files.loads[i].loaded)
    /\ UNCHANGED <<serverVars, xin, xs, assetVars>>

-----------------------------------------------------------------------------
(* Request bodies.  Traffic is protocol-conformant: an update frame carries *)
(* an element sequence, an HTTP body is JSON whose fields are optional.     *)

\* the `elements` field of a body: absent, or one of the batches B
Opt(B) == {Null} \cup { Some(b) : b \in B }

Present(B) == { Some(b) : b \in B }

\* bodies of replace-all requests with `elements` in E
ElementBodies(E) ==
    { Body(e, a, Null, Null, Null, Null) : e \in E, a \in {Null, Some("A1")} }

\* bodies of append requests with `elements` in E
AppendBodies(E) == { Body(e, Null, Null, Null, Null, Null) : e \in E }

\* inbound frames: text that is not JSON, the JSON text null, a frame of
\* another type, an update without `elements`, and a well-formed update
RawFrames ==
    { Data(FALSE, FALSE, Null, Null),
      Data(TRUE, FALSE, Null, Null),
      Data(TRUE, TRUE, Some("ping"), Null),
      Data(TRUE, TRUE, Some("update"), Null),
      Update(<<elA>>) }

\* a few bodies of set-viewport requests
ViewportBodies ==
    { Body(Null, Null, Null, Null, Null, Null),
      Body(Null, Null, Some(5), Null, Some(0), Some(7)) }

\* every body of a set-viewport request over FieldVals
AllViewportBodies ==
    { Body(Null, Null, x, y, w, h) : x \in FieldVals, y \in FieldVals,
                                      w \in FieldVals, h \in FieldVals }

-----------------------------------------------------------------------------
(* Spec: the whole server, two sessions, few batches *)

NextConn(c) ==
    \E i \in 1 .. Len(ConnOrder) :
        /\ ConnOrder[i] = c
        /\ \A j \in 1 .. (i - 1) : conns[ConnOrder[j]].readyState # "CONNECTING"

Next ==
    \/ \E c \in Conns, sid \in SessionIds : NextConn(c) /\ OnUpgrade(c, sid)
    \/ \E c \in Conns : PeerClosing(c)
    \/ \E c \in Conns : OnClose(c)
    \/ \E sid \in SessionIds : OnTimeout(sid)
    \/ \E c \in Conns, b \in FewBatches : OnMessage(c, Update(b))
    \/ \E sid \in SessionIds : HttpGetSession(sid)
    \/ \E sid \in SessionIds, body \in ElementBodies(Present(FewBatches)) : HttpPostElements(sid, body)
    \/ \E sid \in SessionIds, body \in AppendBodies(Present(FewBatches)) : HttpPostAppend(sid, body)
    \/ \E sid \in SessionIds, body \in ViewportBodies : HttpPostViewport(sid, body)
    \/ \E sid \in SessionIds : HttpPostClear(sid)

Spec == Init /\ [][Next]_vars

(* SpecScene: one session, every batch up to MaxBatch in the HTTP requests *)

NextScene ==
    \/ \E c \in Conns : NextConn(c) /\ OnUpgrade(c, "s1")
    \/ \E c \in Conns : PeerClosing(c)
    \/ \E c \in Conns : OnClose(c)
    \/ OnTimeout("s1")
    \/ \E c \in Conns, b \in FewBatches : OnMessage(c, Update(b))
    \/ HttpGetSession("s1")
    \/ \E body \in ElementBodies(Opt(Batches)) : HttpPostElements("s1", body)
    \/ \E body \in AppendBodies(Opt(Batches)) : HttpPostAppend("s1", body)
    \/ \E body \in ViewportBodies : HttpPostViewport("s1", body)
    \/ HttpPostClear("s1")

SpecScene == Init /\ [][NextScene]_vars

(* SpecRead: one session, one more request than MaxOps, reads after appends *)
(* and clears                                                               *)

InitRead ==
    /\ InitServer
    /\ limit = MaxOps + 1
    /\ xin = <<>>
    /\ xs = extractStart(<<>>)
    /\ InitAssets
    /\ InitApp(FALSE)
    /\ clock = NoClock

NextRead ==
    \/ OnUpgrade("c1", "s1")
    \/ PeerClosing("c1")
    \/ OnClose("c1")
    \/ HttpGetSession("s1")
    \/ \E body \in AppendBodies(Opt(DrawBatches)) : HttpPostAppend("s1", body)
    \/ \E body \in ElementBodies(Present({<<elB, camA>>})) : HttpPostElements("s1", body)
    \/ HttpPostClear("s1")

SpecRead == InitRead /\ [][NextRead]_vars

(* SpecExtract: the extraction on every small batch and on every camera     *)
(* pseudo-element, and one set-viewport request with any body               *)

ExtractInputs ==
    SeqsUpTo(DrawItems \cup CamItems, MaxBatch) \cup { <<c>> : c \in AllCamItems } \cup { <<elA, camB, elB>>, <<camA, elA, camB>> }

InitExtract ==
    /\ InitServer
    /\ limit = 1
    /\ xin \in ExtractInputs
    /\ xs = extractStart(xin)
    /\ InitAssets
    /\ InitApp(FALSE)
    /\ clock = NoClock

NextExtract ==
    \/ ExtractStep
    \/ \E body \in AllViewportBodies : xin = <<>> /\ HttpPostViewport("s1", body)

SpecExtract == InitExtract /\ [][NextExtract]_vars

(* SpecIdle: one session reached over both channels; a scheduled deletion    *)
(* check does fire (the event loop runs every timer that is due)             *)

NextIdle ==
    \/ \E c \in Conns : NextConn(c) /\ OnUpgrade(c, "s1")
    \/ \E c \in Conns : PeerClosing(c)
    \/ \E c \in Conns : OnClose(c)
    \/ OnTimeout("s1")
    \/ HttpGetSession("s1")
    \/ \E body \in ElementBodies(Present({<<elA>>})) : HttpPostElements("s1", body)
    \/ \E body \in AppendBodies(Present({<<elA>>})) : HttpPostAppend("s1", body)
    \/ HttpPostViewport("s1", NoBody)
    \/ HttpPostClear("s1")

SpecIdle == Init /\ [][NextIdle]_vars /\ WF_vars(OnTimeout("s1"))

(* SpecSendFail: one session, and sockets whose send starts to throw         *)

NextSendFail ==
    \/ \E c \in Conns : NextConn(c) /\ OnUpgrade(c, "s1")
    \/ \E c \in Conns : SendBreaks(c)
    \/ \E c \in Conns : PeerClosing(c)
    \/ \E c \in Conns : OnClose(c)
    \/ \E c \in Conns, b \in FewBatches : OnMessage(c, Update(b))
    \/ \E body \in ElementBodies(Present(FewBatches)) : HttpPostElements("s1", body)
    \/ \E body \in AppendBodies(Present(FewBatches)) : HttpPostAppend("s1", body)
    \/ \E body \in ViewportBodies : HttpPostViewport("s1", body)
    \/ HttpPostClear("s1")

SpecSendFail == Init /\ [][NextSendFail]_vars

(* SpecMalformed: one session whose connections all open before the first    *)
(* frame arrives, and inbound frames of every shape                           *)

NextMalformed ==
    \/ \E c \in Conns : NextConn(c) /\ hist = <<>> /\ OnUpgrade(c, "s1")
    \/ \E c \in Conns : PeerClosing(c)
    \/ \E c \in Conns : OnClose(c)
    \/ \E c \in Conns, data \in RawFrames : OnMessage(c, data)
    \/ \E body \in ElementBodies(Present(FewBatches)) : HttpPostElements("s1", body)
    \/ \E body \in ViewportBodies : HttpPostViewport("s1", body)
    \/ HttpPostClear("s1")

SpecMalformed == Init /\ [][NextMalformed]_vars

(* SpecClock: one session under a clock: connections come and go, minutes     *)
(* pass, and each deletion check runs when it is due                          *)

InitClock ==
    /\ InitServer
    /\ limit = MaxOps
    /\ xin = <<>>
    /\ xs = extractStart(<<>>)
    /\ InitAssets
    /\ InitApp(FALSE)
    /\ clock = StartClock

NextClock ==
    \/ \E c \in Conns : NextConn(c) /\ OnUpgrade(c, "s1")
    \/ \E c \in Conns : PeerClosing(c)
    \/ \E c \in Conns : OnClose(c)
    \/ OnTimeout("s1")
    \/ Tick
    \/ HttpGetSession("s1")
    \/ \E body \in ElementBodies(Present({<<elA>>})) : HttpPostElements("s1", body)

SpecClock == InitClock /\ [][NextClock]_vars

(* SpecGuard: the editing client under a clock of 50 ms ticks: frames of the  *)
(* server arrive while the fonts load or after, timers fire when due, the    *)
(* surface notifies of the changes                                           *)

InitGuard ==
    /\ InitServer
    /\ limit = MaxOps
    /\ xin = <<>>
    /\ xs = extractStart(<<>>)
    /\ InitAssets
    /\ InitApp(TRUE)
    /\ clock = NoClock

NextGuard ==
    \/ Mount
    \/ WsOpen
    \/ \E msg \in ServerMsgs : WsOnMessage(msg, FALSE)
    \/ \E outcome \in {"ready", "failed"} : FontsSettle(outcome)
    \/ \E i \in 1 .. MaxOps : FlagTimerFires(i)
    \/ AppTick
    \/ OnChange

SpecGuard == InitGuard /\ [][NextGuard]_vars

(* SpecFlag: the editing client without a clock: the socket closes and comes *)
(* back, the surface may throw when a frame is applied, the user edits; a    *)
(* pending timer does fire and the fonts promise does settle                 *)

FlagTimerFiresSome == \E i \in 1 .. MaxOps : FlagTimerFires(i)

FontsSettleSome == \E outcome \in {"ready", "failed"} : FontsSettle(outcome)

NextFlag ==
    \/ Mount
    \/ WsOpen
    \/ WsClose
    \/ Reconnect
    \/ \E msg \in ServerMsgs, fails \in BOOLEAN : WsOnMessage(msg, fails)
    \/ FontsSettleSome
    \/ FlagTimerFiresSome
    \/ \E kind \in {"draw", "delete"} : LocalEdit(kind)
    \/ OnChange

SpecFlag ==
    Init /\ [][NextFlag]_vars /\ WF_vars(FlagTimerFiresSome) /\ WF_vars(FontsSettleSome)

(* SpecFiles: the editing client and its images: the user puts images on    *)
(* the canvas, frames about files and clear frames arrive, uploads and      *)
(* proxy fetches are answered in any order, with success or without         *)

\* uploadingFileIds holds the fileId of every suspended upload, so there are
\* no more of them than fileIds; a load is begun by a frame
MaxUploads == Cardinality(FileIds)

NextFiles ==
    \/ Mount
    \/ WsOpen
    \/ \E f \in FileIds, dataURL \in BOOLEAN : PasteImage(f, dataURL)
    \/ OnChange
    \/ \E msg \in FileMsgs \cup {Msg("clear", Null, Null)} : WsOnMessage(msg, FALSE)
    \/ FlagTimerFiresSome
    \/ \E i \in 1 .. MaxUploads, outcome \in {"ok", "status", "error"} : UploadResponds(i, outcome)
    \/ \E i \in 1 .. MaxUploads, good \in BOOLEAN : UploadBodyRead(i, good)
    \/ \E i \in 1 .. MaxOps, f \in FileIds, loaded \in BOOLEAN : FetchAnswers(i, f, loaded)
    \/ \E i \in 1 .. MaxOps : ApiPoll(i)

SpecFiles == Init /\ [][NextFiles]_vars

(* SpecUpload: the storage client is initialised from some environment, or  *)
(* not at all, and two calls of uploadFile run interleaved                   *)

\* calls are interchangeable: u1 starts first
NextCall(u) == u = "u1" \/ calls["u1"].pc # "idle"

AllAnswers == {Ok, Err("NotFound", Some(404)), Err("UnknownError", Some(404))} \cup OtherErrors

NextUpload ==
    \/ \E env \in Envs : InitSpaces(env)
    \/ \E u \in Calls, f \in FileIds, d \in DataURLs, m \in MimeTypes :
          NextCall(u) /\ UploadStart(u, "s1", f, d, m)
    \/ \E u \in Calls, answer \in AllAnswers : HeadResponds(u, answer)
    \/ \E u \in Calls, answer \in AllAnswers : PutResponds(u, answer)

SpecUpload == Init /\ [][NextUpload]_vars

-----------------------------------------------------------------------------
(* What the claims are stated in: the request of a history entry, the frames *)
(* a connection was sent by it, and the connections it had to reach           *)

IsDraw(el) == el.type \notin {"cameraUpdate", "viewportUpdate"}

IsCam(el) == ~IsDraw(el)

DrawOf(batch) == SelectSeq(batch, IsDraw)

CamsOf(batch) == SelectSeq(batch, IsCam)

\* the batch of a request body (an absent `elements` is no element)
BatchOf(body) == IF body.elements = Null THEN <<>> ELSE body.elements[1]

\* the frames connection c was sent by the k-th handled request
FramesOf(c, k) ==
    LET ByK(f) == f.op = k IN SelectSeq(outbox[c], ByK)

FramesOfType(c, k, type) ==
    LET Same(f) == f.op = k /\ f.type = type IN SelectSeq(outbox[c], Same)

\* the connections open in the session when the k-th request was handled
Targets(k) == hist[k].pre.clients \cap hist[k].open

\* a field that defaults only when it is missing
MissingOnly(v, d) == IF v = Null THEN d ELSE v[1]

CameraMissingOnly(r) ==
    [x      |-> MissingOnly(r.x, 0),
     y      |-> MissingOnly(r.y, 0),
     width  |-> MissingOnly(r.width, 800),
     height |-> MissingOnly(r.height, 600)]

\* a field that defaults when it is missing or zero
MissingOrZero(v, d) == IF v = Null THEN d ELSE IF v[1] = 0 THEN d ELSE v[1]

CameraMissingOrZero(r) ==
    [x      |-> MissingOrZero(r.x, 0),
     y      |-> MissingOrZero(r.y, 0),
     width  |-> MissingOrZero(r.width, 800),
     height |-> MissingOrZero(r.height, 600)]

-----------------------------------------------------------------------------
(* C4: appending E1 and then E2 (no camera commands) to an empty session,    *)
(* with no request in between, makes the next read return E1 followed by E2, *)
(* each batch in its original order.                                         *)
AppendThenRead ==
    \A k \in 1 .. (Len(hist) - 2) :
        ( /\ hist[k].op = "append" /\ hist[k + 1].op = "append" /\ hist[k + 2].op = "read"
          /\ hist[k].sid = hist[k + 1].sid /\ hist[k].sid = hist[k + 2].sid
          /\ hist[k].pre.elements = <<>>
          /\ CamsOf(BatchOf(hist[k].body)) = <<>>
          /\ CamsOf(BatchOf(hist[k + 1].body)) = <<>> )
        => hist[k + 2].resp.elements = BatchOf(hist[k].body) \o BatchOf(hist[k + 1].body)

AppendThenReadWitness ==
    /\ Len(hist) = 3
    /\ hist[1].op = "append" /\ hist[2].op = "append" /\ hist[3].op = "read"
    /\ hist[1].pre.elements = <<>>
    /\ BatchOf(hist[1].body) = <<elB, elA>>
    /\ BatchOf(hist[2].body) = <<elA>>
    /\ hist[3].resp.elements = <<elB, elA, elA>>

(* C7: a clear leaves the session with elements = [], appState = null and    *)
(* viewport = null, a read that follows it returns exactly that, and every   *)
(* connection open in the session at the clear is sent one `clear` frame.    *)
ClearResets ==
    \A k \in 1 .. Len(hist) :
        hist[k].op = "clear" =>
            /\ hist[k].post.elements = <<>>
            /\ hist[k].post.appState = Null
            /\ hist[k].post.viewport = Null
            /\ \A c \in Targets(k) :
                  /\ Len(FramesOf(c, k)) = 1
                  /\ FramesOf(c, k)[1].type = "clear"
            /\ (k < Len(hist) /\ hist[k + 1].op = "read" /\ hist[k + 1].sid = hist[k].sid)
                  => /\ hist[k + 1].resp.elements = <<>>
                     /\ hist[k + 1].resp.appState = Null
                     /\ hist[k + 1].resp.viewport = Null

ClearResetsWitness ==
    /\ Len(hist) = 3
    /\ hist[1].op = "replace" /\ hist[2].op = "clear" /\ hist[3].op = "read"
    /\ hist[2].pre.elements = <<elB>>
    /\ hist[2].pre.appState = Some("A1")
    /\ hist[2].pre.viewport # Null
    /\ Targets(2) = {"c1"}
    /\ hist[3].resp.elements = <<>>

-----------------------------------------------------------------------------
(* C9: extraction leaves its input unchanged, and its drawElements are the   *)
(* input items whose type is neither cameraUpdate nor viewportUpdate, in     *)
(* their original order.                                                     *)
ExtractionPure ==
    /\ xs.elements = xin
    /\ extractDone => xs.drawElements = DrawOf(xin)
    /\ extractViewportUpdates(xin).drawElements = DrawOf(xin)

ExtractionPureWitness ==
    /\ extractDone
    /\ xin = <<elA, camB, elB>>
    /\ xs.drawElements = <<elA, elB>>

-----------------------------------------------------------------------------
(* C1 as stated: whatever requests and update frames were handled, no        *)
(* registered session stores an element of type cameraUpdate or              *)
(* viewportUpdate.                                                           *)
NoCameraStored ==
    \A sid \in SessionIds :
        sessions[sid] # 0 =>
            \A i \in 1 .. Len(heap[sessions[sid]].elements) :
                IsDraw(heap[sessions[sid]].elements[i])

(* C2: an update replaces the session's elements by its own, so that after   *)
(* two updates from distinct connections of one session the elements are     *)
(* those of the update handled last; every other open connection of the      *)
(* session is sent exactly one `elements` frame with the update's elements,   *)
(* the sender none.                                                          *)
LastWriterWins ==
    \A k \in 1 .. Len(hist) :
        hist[k].op = "update" =>
            /\ hist[k].post.elements = BatchOf(hist[k].body)
            /\ FramesOf(hist[k].conn, k) = <<>>
            /\ \A c \in Targets(k) \ {hist[k].conn} :
                  /\ Len(FramesOf(c, k)) = 1
                  /\ FramesOf(c, k)[1].type = "elements"
                  /\ FramesOf(c, k)[1].elements = BatchOf(hist[k].body)

LastWriterWinsWitness ==
    /\ Len(hist) = 2
    /\ hist[1].op = "update" /\ hist[2].op = "update"
    /\ hist[1].conn = "c1" /\ hist[2].conn = "c2"
    /\ hist[1].session = hist[2].session
    /\ Targets(1) = {"c1", "c2"} /\ Targets(2) = {"c1", "c2"}
    /\ BatchOf(hist[1].body) = <<elA>> /\ BatchOf(hist[2].body) = <<>>
    /\ Len(outbox["c1"]) = 1 /\ Len(outbox["c2"]) = 1

(* C3: a connection is sent its frames in the order the server handled the   *)
(* mutations behind them: frames of an earlier request come before frames of *)
(* a later one, and of one request the elements (or append) frame comes      *)
(* before the viewport frame, as the handler mutates in that order.          *)
BroadcastInHandlingOrder ==
    \A c \in Conns :
        \A i, j \in 1 .. Len(outbox[c]) :
            i < j =>
                /\ outbox[c][i].op <= outbox[c][j].op
                /\ outbox[c][i].op = outbox[c][j].op =>
                      /\ outbox[c][i].type \in {"elements", "append"}
                      /\ outbox[c][j].type = "viewport"

BroadcastInHandlingOrderWitness ==
    \E c \in Conns :
        /\ conns[c].readyState = "OPEN"
        /\ Len(outbox[c]) = 3
        /\ outbox[c][1].op = 1 /\ outbox[c][1].type = "elements"
        /\ outbox[c][2].op = 1 /\ outbox[c][2].type = "viewport"
        /\ outbox[c][3].op = 2 /\ outbox[c][3].type = "clear"

-----------------------------------------------------------------------------
(* C5: replace-all sets the elements to exactly the draw elements of its     *)
(* batch, whatever the scene held, and sends every open connection of the    *)
(* session one `elements` frame with that new scene.                         *)
ReplaceAllSwapsScene ==
    \A k \in 1 .. Len(hist) :
        hist[k].op = "replace" =>
            /\ hist[k].post.elements = DrawOf(BatchOf(hist[k].body))
            /\ \A c \in Targets(k) :
                  /\ Len(FramesOfType(c, k, "elements")) = 1
                  /\ FramesOfType(c, k, "elements")[1].elements = DrawOf(BatchOf(hist[k].body))
                  /\ FramesOfType(c, k, "append") = <<>>

ReplaceAllSwapsSceneWitness ==
    /\ Len(hist) = 2
    /\ hist[2].op = "replace"
    /\ hist[2].pre.elements = <<elA, elA>>
    /\ BatchOf(hist[2].body) = <<camB, elA>>
    /\ hist[2].post.elements = <<elA>>
    /\ Targets(2) = {"c1", "c2"}

(* C6 as stated: an append sends every open connection of the session an     *)
(* `append` frame whose elements are exactly the draw elements of the        *)
(* request, and no `elements` frame.                                         *)
AppendAlwaysSendsDelta ==
    \A k \in 1 .. Len(hist) :
        hist[k].op = "append" =>
            \A c \in Targets(k) :
                /\ Len(FramesOfType(c, k, "append")) = 1
                /\ FramesOfType(c, k, "append")[1].elements = DrawOf(BatchOf(hist[k].body))
                /\ FramesOfType(c, k, "elements") = <<>>

(* C6 amended: an append whose batch has a draw element sends every open     *)
(* connection one `append` frame with exactly the draw elements of the       *)
(* request; an append whose batch has none sends no `append` frame; in       *)
(* neither case is an `elements` frame sent.                                 *)
AppendSendsOnlyDelta ==
    \A k \in 1 .. Len(hist) :
        hist[k].op = "append" =>
            \A c \in Targets(k) :
                /\ DrawOf(BatchOf(hist[k].body)) # <<>> =>
                      /\ Len(FramesOfType(c, k, "append")) = 1
                      /\ FramesOfType(c, k, "append")[1].elements
                            = DrawOf(BatchOf(hist[k].body))
                /\ DrawOf(BatchOf(hist[k].body)) = <<>> =>
                      FramesOfType(c, k, "append") = <<>>
                /\ FramesOfType(c, k, "elements") = <<>>

AppendSendsOnlyDeltaWitness ==
    /\ Len(hist) = 2
    /\ hist[2].op = "append"
    /\ hist[2].pre.elements = <<elA>>
    /\ BatchOf(hist[2].body) = <<elA, camA>>
    /\ Targets(2) = {"c1", "c2"}
    /\ Len(FramesOfType("c1", 2, "append")) = 1

(* C8: when the batch of a replace-all or append has camera commands, the    *)
(* viewport afterwards is the camera of the last of them, every open         *)
(* connection is sent exactly one `viewport` frame, with that camera, and    *)
(* no earlier camera is stored or sent.                                      *)
LastCameraWins ==
    \A k \in 1 .. Len(hist) :
        (hist[k].op \in {"replace", "append"} /\ CamsOf(BatchOf(hist[k].body)) # <<>>) =>
            LET cams == CamsOf(BatchOf(hist[k].body))
                cam  == CameraMissingOrZero(cams[Len(cams)])
            IN /\ hist[k].post.viewport = Some(cam)
               /\ \A c \in Targets(k) :
                     /\ Len(FramesOfType(c, k, "viewport")) = 1
                     /\ FramesOfType(c, k, "viewport")[1].viewport = Some(cam)

LastCameraWinsWitness ==
    \E k \in 1 .. Len(hist) :
        /\ hist[k].op = "append"
        /\ BatchOf(hist[k].body) = <<camA, camB>>
        /\ hist[k].post.viewport = Some([x |-> 0, y |-> 0, width |-> 800, height |-> 600])
        /\ Targets(k) # {}

-----------------------------------------------------------------------------
\* the frames of the initial sync of a session: its elements if it has any,
\* then its viewport if it has one
SyncOf(session) ==
    (IF session.elements # <<>>
     THEN <<Frame("elements", session.elements, session.appState, Null, 0)>>
     ELSE <<>>)
    \o (IF session.viewport # Null
        THEN <<Frame("viewport", <<>>, Null, session.viewport, 0)>>
        ELSE <<>>)

\* in every outbox the frames of the initial sync come before every broadcast
SyncBeforeBroadcasts ==
    \A c \in Conns :
        \A i, j \in 1 .. Len(outbox[c]) :
            (i < j /\ outbox[c][j].op = 0) => outbox[c][i].op = 0

(* C11: a connection that opens is in the client set of the registered       *)
(* session of its id; it has been sent the session's elements in one         *)
(* `elements` frame if the session has elements, then the session's viewport *)
(* in one `viewport` frame if it has a viewport, and nothing else; these     *)
(* frames stay ahead of every broadcast the connection is sent later.        *)
SyncOnOpen ==
    [][ /\ \A c \in Conns :
             (conns[c].readyState = "CONNECTING" /\ conns'[c].readyState = "OPEN") =>
                 /\ sessions'[conns'[c].sid] = conns'[c].session
                 /\ c \in heap'[conns'[c].session].clients
                 /\ outbox'[c] = SyncOf(heap'[conns'[c].session])
        /\ SyncBeforeBroadcasts' ]_vars

SyncOnOpenWitness ==
    \E c \in Conns :
        /\ Len(outbox[c]) = 3
        /\ outbox[c][1].op = 0 /\ outbox[c][1].type = "elements"
        /\ outbox[c][1].elements = <<elA>>
        /\ outbox[c][2].op = 0 /\ outbox[c][2].type = "viewport"
        /\ outbox[c][3].op = 2 /\ outbox[c][3].type = "clear"

-----------------------------------------------------------------------------
(* C12 as stated: a registered session whose client set is empty is, unless  *)
(* a client joins it, eventually removed from the registry, however it was   *)
(* created.                                                                  *)
IdleSessionsCollected ==
    \A sid \in SessionIds :
        (sessions[sid] # 0 /\ heap[sessions[sid]].clients = {})
            ~> (sessions[sid] = 0 \/ heap[sessions[sid]].clients # {})

(* C13: a deletion check that fires while the session has a client (one that *)
(* connected after the last client left, or any other) does not delete the   *)
(* session: the registry entry, the elements, the appState and the viewport  *)
(* are as before the check.  Nothing cancels the timer.                      *)
ReconnectKeepsSession ==
    [][ \A sid \in SessionIds :
            ( /\ timers'[sid] < timers[sid]
              /\ sessions[sid] # 0
              /\ heap[sessions[sid]].clients # {} )
            => /\ sessions'[sid] = sessions[sid]
               /\ heap'[sessions[sid]] = heap[sessions[sid]] ]_vars

\* c1 was the only client, it left (the read saw no client), c2 joined, and
\* the check scheduled at c1's close has fired: the scene is still there
ReconnectKeepsSessionWitness ==
    /\ Len(hist) = 2
    /\ hist[1].op = "replace" /\ hist[1].pre.clients = {"c1"}
    /\ hist[1].post.elements = <<elA>>
    /\ hist[2].op = "read" /\ hist[2].pre.clients = {}
    /\ hist[2].resp.elements = <<elA>>
    /\ conns["c1"].readyState = "CLOSED"
    /\ conns["c2"].readyState = "OPEN"
    /\ timers["s1"] = 0
    /\ sessions["s1"] # 0
    /\ heap[sessions["s1"]].clients = {"c2"}
    /\ heap[sessions["s1"]].elements = <<elA>>
    /\ heap[sessions["s1"]].appState = Some("A1")

-----------------------------------------------------------------------------
\* the connections the k-th request or update has to reach: the open clients
\* of the session, but for an update its sender
Recipients(k) ==
    IF hist[k].op = "update" THEN Targets(k) \ {hist[k].conn} ELSE Targets(k)

\* the frame types the k-th request or update broadcasts
Broadcasts(k) ==
    LET batch == BatchOf(hist[k].body)
    IN CASE hist[k].op = "replace" ->
              {"elements"} \cup (IF CamsOf(batch) # <<>> THEN {"viewport"} ELSE {})
         [] hist[k].op = "append" ->
              (IF DrawOf(batch) # <<>> THEN {"append"} ELSE {})
              \cup (IF CamsOf(batch) # <<>> THEN {"viewport"} ELSE {})
         [] hist[k].op = "viewport" -> {"viewport"}
         [] hist[k].op = "clear" -> {"clear"}
         [] hist[k].op = "update" -> {"elements"}
         [] OTHER -> {}

(* C14 as stated: when the send to one connection fails during a broadcast   *)
(* (of an HTTP mutation or of an update), every other open connection the    *)
(* broadcast has to reach is still sent each of its frames.                  *)
SendFailureIsLocal ==
    \A k \in 1 .. Len(hist) :
        \A c \in Recipients(k) \ hist[k].throwing :
            \A type \in Broadcasts(k) :
                Len(FramesOfType(c, k, type)) = 1

(* C15 as stated: an inbound frame that is not JSON, or is not an update     *)
(* with a sequence of elements, is dropped: elements, appState and viewport  *)
(* of the session are unchanged, no connection is sent anything, and the     *)
(* sender is still in the client set.                                        *)
MalformedDropped ==
    \A k \in 1 .. Len(hist) :
        ( \/ hist[k].op = "message"
          \/ hist[k].op = "update" /\ hist[k].body.elements = Null )
        => /\ hist[k].post = hist[k].pre
           /\ hist[k].conn \in hist[k].post.clients
           /\ \A c \in Conns : FramesOf(c, k) = <<>>

(* C16: no request and no connection fails for want of a session: a step    *)
(* that finds no entry for the id creates one, with an empty scene and an    *)
(* empty client set before the handler acts on it; a read that does so, of   *)
(* an id never used or of one whose session was deleted, answers with        *)
(* elements = [], appState = null, viewport = null; every request is         *)
(* answered with success.                                                    *)
SessionNeverMissing ==
    [][ /\ \A sid \in SessionIds :
             (sessions[sid] = 0 /\ sessions'[sid] # 0) =>
                 IF hist' = hist
                 THEN \E c \in Conns :
                         heap'[sessions'[sid]] = [EmptySession EXCEPT !.clients = {c}]
                 ELSE LET e == hist'[Len(hist')]
                      IN /\ e.sid = sid
                         /\ e.pre = EmptySession
                         /\ e.post.clients = {}
                         /\ e.op = "read" =>
                                /\ e.resp = Resp(<<>>, Null, Null, Null)
                                /\ heap'[sessions'[sid]] = EmptySession
        /\ \A k \in 1 .. Len(hist') : hist'[k].resp.status = 200 ]_vars

\* a read of a session that was deleted after it held a scene
SessionNeverMissingWitness ==
    /\ Len(hist) = 2
    /\ hist[1].op = "replace" /\ hist[1].sid = "s1"
    /\ hist[1].post.elements = <<elA>>
    /\ hist[1].post.appState = Some("A1")
    /\ hist[2].op = "read" /\ hist[2].sid = "s1"
    /\ hist[2].resp = Resp(<<>>, Null, Null, Null)
    /\ timers["s1"] = 0

-----------------------------------------------------------------------------
(* What the upload claims are stated in *)

Started(u) == calls[u].pc # "idle"

\* the storage requests call u issued, and its writes among them
RequestsOf(u) ==
    LET Mine(r) == r.call = u IN SelectSeq(requests, Mine)

PutsOf(u) ==
    LET MyPut(r) == r.call = u /\ r.command = "PutObject" IN SelectSeq(requests, MyPut)

PutsTo(key) ==
    LET PutKey(r) == r.command = "PutObject" /\ r.Key = key IN SelectSeq(requests, PutKey)

SameArgs(p, q) ==
    /\ calls[p].sessionId = calls[q].sessionId
    /\ calls[p].fileId = calls[q].fileId
    /\ calls[p].dataURL = calls[q].dataURL
    /\ calls[p].mimeType = calls[q].mimeType

\* an answer of the existence check that says the object is not there
NotFoundAnswer(e) == e.name = "NotFound" \/ e.status = Some(404)

\* the data URLs of DataURLs that have the form data:<type>;base64,<payload>
Base64DataURLs ==
    { <<"data:", "image/png", ";", "base64", ",", "iVBOR">>,
      <<"data:", "image/png", ";", "base64", ",", "R0lGO">> }

\* the storage configurations of the environments that hold all credentials
CompleteSpaces ==
    { initSpacesClient(NoSpaces, Env(Some("AK"), Some("SK"), Some("bk"), r)).spaces :
        r \in {Null, Some("ams3")} }

(* C17: of two calls of uploadFile with the same four arguments, the second  *)
(* started after the first returned its URL, the first issued the one write  *)
(* there is for the key and the second issues none: its existence check is   *)
(* never answered "not found", and when it returns (the storage did not fail *)
(* the check with an error of its own) it returns the URL the first did.     *)
IdempotentUpload ==
    \A p, q \in Calls :
        ( /\ p # q
          /\ calls[p].pc = "returned"
          /\ Started(q) /\ p \in calls[q].after
          /\ SameArgs(p, q) )
        => /\ Len(PutsOf(p)) = 1
           /\ PutsOf(q) = <<>>
           /\ Len(PutsTo(calls[p].key)) = 1
           /\ calls[q].pc \in {"head", "returned", "thrown"}
           /\ calls[q].head # Null => ~NotFoundAnswer(calls[q].head[1])
           /\ calls[q].pc = "thrown" => calls[q].error = calls[q].head
           /\ calls[q].pc = "returned" =>
                 /\ calls[q].head = Some(Ok)
                 /\ calls[q].result = calls[p].result

IdempotentUploadWitness ==
    /\ calls["u1"].pc = "returned" /\ calls["u2"].pc = "returned"
    /\ "u1" \in calls["u2"].after
    /\ SameArgs("u1", "u2")
    /\ calls["u1"].put = Some(Ok)
    /\ calls["u2"].result = calls["u1"].result
    /\ Len(requests) = 3

(* C18 as stated: of two calls of uploadFile for the same session and file   *)
(* (the same key) that run concurrently, at most one writes the object.      *)
ExclusiveWrite ==
    \A p, q \in Calls :
        ( /\ p # q
          /\ Started(p) /\ Started(q)
          /\ p \notin calls[q].after /\ q \notin calls[p].after
          /\ calls[p].sessionId = calls[q].sessionId
          /\ calls[p].fileId = calls[q].fileId
          /\ calls[p].key = calls[q].key )
        => ~(calls[p].put = Some(Ok) /\ calls[q].put = Some(Ok))

(* C19: when the existence check is answered with an error, a "not found"    *)
(* sends the call on to the write, after which it returns the URL of the key *)
(* (or fails with the error of the write, if the storage rejects the write); *)
(* any other error ends the call with that error and without a write.        *)
HeadAnswerDecides ==
    \A u \in Calls :
        (calls[u].head # Null /\ calls[u].head # Some(Ok)) =>
            IF NotFoundAnswer(calls[u].head[1])
            THEN /\ Len(PutsOf(u)) = 1
                 /\ PutsOf(u)[1].Key = keyOf(calls[u].sessionId, calls[u].fileId,
                                              extOf(calls[u].mimeType))
                 /\ calls[u].pc \in {"put", "returned", "thrown"}
                 /\ calls[u].pc = "returned" =>
                       /\ calls[u].put = Some(Ok)
                       /\ calls[u].result = Some(urlOf(spaces, calls[u].key))
                       /\ bucket[calls[u].key] # Null
                 /\ calls[u].pc = "thrown" =>
                       /\ calls[u].put # Null /\ calls[u].put # Some(Ok)
                       /\ calls[u].error = calls[u].put
            ELSE /\ calls[u].pc = "thrown"
                 /\ calls[u].error = calls[u].head
                 /\ PutsOf(u) = <<>>

HeadAnswerDecidesWitness ==
    /\ calls["u1"].head = Some(Err("NotFound", Some(404)))
    /\ calls["u1"].pc = "returned"
    /\ bucket[calls["u1"].key] # Null
    /\ calls["u2"].head = Some(Err("Forbidden", Some(403)))
    /\ calls["u2"].pc = "thrown"
    /\ calls["u2"].key # calls["u1"].key
    /\ bucket[calls["u2"].key] = Null

-----------------------------------------------------------------------------
\* the live connections that were opened on /ws/<sid>
ConnsOf(sid) ==
    { c \in Conns : conns[c].readyState \in {"OPEN", "CLOSING"} /\ conns[c].sid = sid }

\* the mutations of the two channels, by the name hist gives them
Mutations == {"replace", "append", "viewport", "clear", "update"}

(* C23: sessions are isolated.  A live connection keeps the session id and   *)
(* the session object it was opened with and is in the client set of that    *)
(* object only; a mutation addressed to session A (an HTTP mutation or an     *)
(* update frame) leaves the registry entry, the elements, appState, viewport *)
(* and client set of every other session B as they were, and sends nothing   *)
(* to a connection of B.                                                     *)
SessionsIsolated ==
    [][ /\ \A c \in Conns :
              conns[c].readyState \in {"OPEN", "CLOSING"} =>
                  /\ conns'[c].sid = conns[c].sid
                  /\ conns'[c].session = conns[c].session
                  /\ { o \in Reachable(sessions, conns) \ {0} : c \in heap[o].clients }
                        = {conns[c].session}
        /\ ( /\ Len(hist') = Len(hist) + 1
             /\ hist'[Len(hist')].op \in Mutations )
           => \A B \in SessionIds \ {hist'[Len(hist')].sid} :
                  /\ sessions'[B] = sessions[B]
                  /\ sessions[B] # 0 => heap'[sessions[B]] = heap[sessions[B]]
                  /\ \A c \in ConnsOf(B) :
                        /\ outbox'[c] = outbox[c]
                        /\ heap'[conns[c].session] = heap[conns[c].session]
      ]_vars

\* a mutation of s1 was handled while a connection of s1 and a connection of
\* s2 were both open, and s2 held a scene of its own
SessionsIsolatedWitness ==
    /\ Len(hist) = 2
    /\ hist[1].sid = "s2" /\ hist[1].op = "replace" /\ hist[1].post.elements # <<>>
    /\ hist[2].sid = "s1" /\ hist[2].op \in Mutations
    /\ hist[2].open = Conns
    /\ conns["c1"].sid # conns["c2"].sid
    /\ \E c \in Conns : conns[c].sid = "s1" /\ FramesOf(c, 2) # <<>>

-----------------------------------------------------------------------------
(* C25: after every step, each connection that is open (or closing, its      *)
(* close handler not yet run) has its session id registered, the registered  *)
(* object is the one the connection's handlers closed over, and the          *)
(* connection is in the client set of that object; and no step removes a     *)
(* registry entry whose object has a client.                                 *)
OpenConnsAttached ==
    [][ /\ \A c \in Conns :
              conns'[c].readyState \in {"OPEN", "CLOSING"} =>
                  /\ sessions'[conns'[c].sid] # 0
                  /\ sessions'[conns'[c].sid] = conns'[c].session
                  /\ c \in heap'[conns'[c].session].clients
        /\ \A sid \in SessionIds :
              (sessions[sid] # 0 /\ sessions'[sid] # sessions[sid])
                  => heap[sessions[sid]].clients = {}
      ]_vars

\* the session c1 wrote to was deleted by a deletion check and made anew (the
\* read finds an empty scene), and c2 is open in the session registered now
OpenConnsAttachedWitness ==
    /\ Len(hist) = 2
    /\ hist[1].op = "replace" /\ hist[1].pre.clients = {"c1"}
    /\ hist[1].post.elements = <<elA>>
    /\ hist[2].op = "read" /\ hist[2].resp.elements = <<>>
    /\ conns["c1"].readyState = "CLOSED"
    /\ conns["c2"].readyState = "OPEN"
    /\ sessions["s1"] # 0
    /\ heap[sessions["s1"]].clients = {"c2"}

-----------------------------------------------------------------------------
(* C26: a mutation changes only the fields it names.  An update leaves       *)
(* appState and viewport as they were; set-viewport leaves elements and      *)
(* appState; append leaves appState, and the viewport when its batch has no  *)
(* camera command; replace-all leaves appState when the request carries      *)
(* none, and the viewport when its batch has no camera command; none of      *)
(* them changes the client set.                                              *)
MutationsTouchOnlyTheirFields ==
    \A k \in 1 .. Len(hist) :
        LET e == hist[k]
            noCam == CamsOf(BatchOf(e.body)) = <<>>
        IN /\ e.op \in {"update", "viewport", "append", "replace"}
                => e.post.clients = e.pre.clients
           /\ e.op = "update"
                => e.post.appState = e.pre.appState /\ e.post.viewport = e.pre.viewport
           /\ e.op = "viewport"
                => e.post.elements = e.pre.elements /\ e.post.appState = e.pre.appState
           /\ e.op = "append"
                => /\ e.post.appState = e.pre.appState
                   /\ noCam => e.post.viewport = e.pre.viewport
           /\ e.op = "replace"
                => /\ e.body.appState = Null => e.post.appState = e.pre.appState
                   /\ noCam => e.post.viewport = e.pre.viewport

\* a replace-all set a scene, an appState and a camera; the mutation after it
\* (an update of an open connection, a set-viewport, an append or replace-all
\* without camera and appState) found all three set
MutationsTouchOnlyTheirFieldsWitness ==
    /\ Len(hist) = 2
    /\ hist[1].op = "replace"
    /\ hist[1].post.elements # <<>>
    /\ hist[1].post.appState # Null
    /\ hist[1].post.viewport # Null
    /\ hist[2].op = "update"
    /\ hist[2].sid = hist[1].sid
    /\ hist[2].pre = hist[1].post
    /\ hist[2].pre.clients # {}
    /\ hist[2].post.elements # hist[2].pre.elements

-----------------------------------------------------------------------------
(* C24 as stated: whenever a session is removed from the registry, its       *)
(* client set has been empty, without a break, for at least the idle window  *)
(* (5 minutes) up to the removal.                                            *)
RemovedOnlyAfterIdleWindow ==
    \A r \in clock.removed : r.at - r.since >= IdleWindow

-----------------------------------------------------------------------------
(* C21 as stated: the flag is set when a frame of the server mutates the     *)
(* rendering surface; it stays set for at least the suppression delay        *)
(* (100 ms) after every such mutation, also when frames arrive less than one *)
(* delay apart; and no update is sent while it is set.                       *)
SuppressedAfterMutation ==
    /\ \A m \in app.muts : m.flag
    /\ ~app.isRemoteUpdate => \A m \in app.muts : app.now - m.at >= SuppressDelay
    /\ \A k \in 1 .. Len(app.sent) : ~app.sent[k].suppressed

-----------------------------------------------------------------------------
(* C28 as stated: after an `elements` frame with scene E and then an         *)
(* `append` frame with delta D, both received by the mounted client and both *)
(* handlers finished, the client's scene is E followed by D (each as         *)
(* sanitizeElements returns it), whenever the fonts finish loading.          *)
ClientAppliesInOrder ==
    LET n == Len(app.received)
    IN ( /\ n >= 2
         /\ app.received[n - 1].msg.type = "elements" /\ app.received[n - 1].api
         /\ app.received[n].msg.type = "append" /\ app.received[n].api
         /\ app.waiting = <<>>
         /\ app.edits = 0 )
       => app.scene = sanitizeElements(app.received[n - 1].msg.elements, app.fonts)
                      \o sanitizeElements(app.received[n].msg.elements, app.fonts)

-----------------------------------------------------------------------------
(* C27 as stated: the flag is never stuck: whenever it is set it is cleared  *)
(* again later (no further frame of the server is needed for that), also     *)
(* when the rendering surface throws while a frame is applied.               *)
FlagNeverStuck == app.isRemoteUpdate ~> ~app.isRemoteUpdate

-----------------------------------------------------------------------------
(* C22: at one client no upload and no proxy fetch is issued for a fileId   *)
(* that is in the known set at that moment, and at most one upload request  *)
(* per fileId is in flight, however change notifications, frames and the    *)
(* answers to uploads and fetches interleave                                *)

\* the uploads of fileId f whose POST has not been answered
InFlight(f) == { i \in 1 .. Len(files.uploads) :
                   files.uploads[i].id = f /\ files.uploads[i].at = "fetch" }

KnownNeverRequestedAgain ==
    /\ \A r \in files.issued : ~r.known
    /\ \A f \in FileIds : Cardinality(InFlight(f)) <= 1

\* a notification passed over a file whose upload was in flight and one over
\* a known file, uploads and a fetch were issued, and a file is known
KnownNeverRequestedAgainWitness ==
    /\ \E k \in files.skipped : k.why = "uploading"
    /\ \E k \in files.skipped : k.why = "known"
    /\ \E r \in files.issued : r.kind = "upload"
    /\ \E r \in files.issued : r.kind = "fetch"
    /\ files.known # {}

====
